---------------------------- MODULE Spec2Model ----------------------------
(***************************************************************************)
(* A model of systemcheck (src/src/main.rs): one invocation of main, which *)
(* gathers CPU topology, memory totals and the cgroup limits of the        *)
(* current process from /proc and /sys/fs/cgroup and emits one report.     *)
(*                                                                         *)
(* Text is modelled as TLA+ strings, read character by character.  u64     *)
(* values are canonical decimal numerals (strings of digits without        *)
(* leading zeros), because the model checker's integers are 32 bits wide   *)
(* and the program compares against u64::MAX and 2^63 - 4096; their        *)
(* arithmetic is done digit by digit.  f64 values are IEEE-754 doubles     *)
(* with a 53-bit significand held as a sequence of bits.                   *)
(***************************************************************************)
EXTENDS Integers, Sequences, FiniteSets, TLC

(***************************************************************************)
(* Option<T> and Result<T, E>: the empty tuple is None / Err, a one-tuple  *)
(* is Some(v) / Ok(v).                                                     *)
(***************************************************************************)
None == <<>>

Some(v) == <<v>>

IsSome(o) == Len(o) = 1

IsNone(o) == Len(o) = 0

Unwrap(o) == o[1]

(***************************************************************************)
(* &str helpers of the Rust standard library, as main.rs uses them.        *)
(***************************************************************************)
Char(s, i) == SubSeq(s, i, i)

IsWhitespace(c) == c \in {" ", "\n", "\t", "\r"}

RECURSIVE TrimStart(_)
TrimStart(s) ==
    IF Len(s) > 0 /\ IsWhitespace(Char(s, 1)) THEN TrimStart(Tail(s)) ELSE s

RECURSIVE TrimEnd(_)
TrimEnd(s) ==
    IF Len(s) > 0 /\ IsWhitespace(Char(s, Len(s)))
    THEN TrimEnd(SubSeq(s, 1, Len(s) - 1))
    ELSE s

\* str::trim
Trim(s) == TrimEnd(TrimStart(s))

\* The length of the longest prefix of s free of whitespace.
RECURSIVE WordLen(_)
WordLen(s) ==
    IF Len(s) = 0 \/ IsWhitespace(Char(s, 1)) THEN 0 ELSE 1 + WordLen(Tail(s))

\* str::split_whitespace, collected into a Vec
RECURSIVE SplitWhitespace(_)
SplitWhitespace(s) ==
    LET t == TrimStart(s)
        n == WordLen(t)
    IN  IF Len(t) = 0 THEN <<>>
        ELSE <<SubSeq(t, 1, n)>> \o SplitWhitespace(SubSeq(t, n + 1, Len(t)))

\* The index of the first occurrence of character c in s, or 0.
RECURSIVE IndexOf(_, _)
IndexOf(s, c) ==
    IF Len(s) = 0 THEN 0
    ELSE IF Char(s, 1) = c THEN 1
    ELSE LET r == IndexOf(Tail(s), c) IN IF r = 0 THEN 0 ELSE r + 1

\* str::split(c), collected: empty fields are kept.
RECURSIVE Split(_, _)
Split(s, c) ==
    LET i == IndexOf(s, c)
    IN  IF i = 0 THEN <<s>>
        ELSE <<SubSeq(s, 1, i - 1)>> \o Split(SubSeq(s, i + 1, Len(s)), c)

StripCr(l) ==
    IF Len(l) > 0 /\ Char(l, Len(l)) = "\r" THEN SubSeq(l, 1, Len(l) - 1) ELSE l

\* str::lines: split at "\n", a final empty piece dropped, a trailing "\r" of
\* each line removed.
Lines(s) ==
    LET raw  == Split(s, "\n")
        kept == IF raw[Len(raw)] = "" THEN SubSeq(raw, 1, Len(raw) - 1) ELSE raw
    IN  [i \in 1..Len(kept) |-> StripCr(kept[i])]

\* str::starts_with
StartsWith(s, p) == Len(s) >= Len(p) /\ SubSeq(s, 1, Len(p)) = p

\* str::contains
Contains(s, p) ==
    \E i \in 1..(Len(s) - Len(p) + 1) : SubSeq(s, i, i + Len(p) - 1) = p

(***************************************************************************)
(* Decimal numerals: the values of u64 variables.                          *)
(***************************************************************************)
Digits == "0123456789"

IsDigit(c) == \E d \in 1..10 : Char(Digits, d) = c

DigitVal(c) == (CHOOSE d \in 1..10 : Char(Digits, d) = c) - 1

DigitChar(d) == Char(Digits, d + 1)

AllDigits(s) == \A i \in 1..Len(s) : IsDigit(Char(s, i))

RECURSIVE StripZeros(_)
StripZeros(s) ==
    IF Len(s) > 1 /\ Char(s, 1) = "0" THEN StripZeros(Tail(s)) ELSE s

\* a < b for canonical numerals
DecLt(a, b) ==
    \/ Len(a) < Len(b)
    \/ /\ Len(a) = Len(b)
       /\ \E i \in 1..Len(a) :
            /\ SubSeq(a, 1, i - 1) = SubSeq(b, 1, i - 1)
            /\ DigitVal(Char(a, i)) < DigitVal(Char(b, i))

\* The digit of numeral a at decimal position i (0 is the units).
DigitAt(a, i) == IF i < Len(a) THEN DigitVal(Char(a, Len(a) - i)) ELSE 0

RECURSIVE AddFrom(_, _, _, _)
AddFrom(a, b, i, carry) ==
    IF i >= Len(a) /\ i >= Len(b)
    THEN IF carry = 0 THEN "" ELSE DigitChar(carry)
    ELSE LET t == DigitAt(a, i) + DigitAt(b, i) + carry
         IN  AddFrom(a, b, i + 1, t \div 10) \o DigitChar(t % 10)

DecAdd(a, b) == StripZeros(AddFrom(a, b, 0, 0))

RECURSIVE SubFrom(_, _, _, _)
SubFrom(a, b, i, borrow) ==
    IF i >= Len(a) THEN ""
    ELSE LET t == DigitAt(a, i) - DigitAt(b, i) - borrow
         IN  SubFrom(a, b, i + 1, IF t < 0 THEN 1 ELSE 0)
                \o DigitChar(IF t < 0 THEN t + 10 ELSE t)

\* a - b for canonical numerals with b <= a
DecSub(a, b) == StripZeros(SubFrom(a, b, 0, 0))

\* u64::MAX, 2^64 - 1
U64_MAX == "18446744073709551615"

\* 2^64
TWO_64 == "18446744073709551616"

\* <u64 as FromStr>::from_str: an optional "+", then one or more digits, the
\* value at most u64::MAX; a "-" is an invalid digit for an unsigned type.
ParseU64(s) ==
    LET body == IF Len(s) > 0 /\ Char(s, 1) = "+" THEN Tail(s) ELSE s
    IN  IF Len(body) = 0 \/ ~AllDigits(body) THEN None
        ELSE LET v == StripZeros(body)
             IN  IF DecLt(U64_MAX, v) THEN None ELSE Some(v)


\* i64::MAX, 2^63 - 1
I64_MAX == "9223372036854775807"

\* -i64::MIN, 2^63
I64_MIN_MAGNITUDE == "9223372036854775808"

\* <i64 as FromStr>::from_str: an optional sign, then one or more digits, the
\* value within i64.  An i64 is a record [neg, mag], mag a canonical numeral.
ParseI64(s) ==
    LET signed == Len(s) > 0 /\ Char(s, 1) \in {"+", "-"}
        neg    == Len(s) > 0 /\ Char(s, 1) = "-"
        body   == IF signed THEN Tail(s) ELSE s
    IN  IF Len(body) = 0 \/ ~AllDigits(body) THEN None
        ELSE LET v == StripZeros(body)
             IN  IF DecLt(IF neg THEN I64_MIN_MAGNITUDE ELSE I64_MAX, v)
                 THEN None
                 ELSE Some([neg |-> neg /\ v # "0", mag |-> v])

\* x > 0 for an i64
I64Positive(x) == ~x.neg /\ x.mag # "0"

(***************************************************************************)
(* The file system the program reads.  fs maps each path of the model to   *)
(* an entry: absent, a directory, or a readable file with its text.  A     *)
(* path the model does not list does not exist.                            *)
(***************************************************************************)
VARIABLES fs, host, cli

Absent == [kind |-> "absent", data |-> ""]

Dir == [kind |-> "dir", data |-> ""]

File(text) == [kind |-> "file", data |-> text]

\* Path resolution: a run of slashes is one separator.
RECURSIVE Canon(_)
Canon(p) ==
    IF Len(p) = 0 THEN ""
    ELSE IF Len(p) >= 2 /\ Char(p, 1) = "/" /\ Char(p, 2) = "/"
    THEN Canon(Tail(p))
    ELSE Char(p, 1) \o Canon(Tail(p))

Lookup(p) == IF Canon(p) \in DOMAIN fs THEN fs[Canon(p)] ELSE Absent

\* fs::read_to_string(p): Ok(text) of a readable file, Err otherwise
ReadToString(p) ==
    IF Lookup(p).kind = "file" THEN Some(Lookup(p).data) ELSE None

\* Path::new(p).exists()
PathExists(p) == Lookup(p).kind # "absent"

\* read_trimmed
read_trimmed(path) ==
    IF IsSome(ReadToString(path)) THEN Some(Trim(Unwrap(ReadToString(path))))
    ELSE None

(***************************************************************************)
(* get_current_cgroup_path                                                 *)
(***************************************************************************)
\* The index of the first TRUE of a sequence of booleans, as an Option: the
\* line at which a `for line in contents.lines()` loop returns.
FirstIndex(hits) ==
    IF \E i \in 1..Len(hits) : hits[i]
    THEN Some(CHOOSE i \in 1..Len(hits) :
                 hits[i] /\ \A j \in 1..(i - 1) : ~hits[j])
    ELSE None

\* The v1 pass: the first line containing ":memory:" with at least three
\* colon-separated fields gives its third field.
V1MemoryLine(line) == Contains(line, ":memory:") /\ Len(Split(line, ":")) >= 3

UnifiedLine(line) == StartsWith(line, "0::")

get_current_cgroup_path ==
    LET contents == ReadToString("/proc/self/cgroup")
    IN  IF IsNone(contents) THEN ""
        ELSE LET ls == Lines(Unwrap(contents))
                 v2 == FirstIndex([i \in 1..Len(ls) |-> UnifiedLine(ls[i])])
                 v1 == FirstIndex([i \in 1..Len(ls) |-> V1MemoryLine(ls[i])])
             IN  IF IsSome(v2)
                 THEN SubSeq(ls[Unwrap(v2)], 4, Len(ls[Unwrap(v2)]))
                 ELSE IF IsSome(v1) THEN Split(ls[Unwrap(v1)], ":")[3]
                 ELSE ""

(***************************************************************************)
(* Memory limit and usage                                                  *)
(***************************************************************************)
\* The v1 "unlimited" value, 2^63 - 4096
V1_UNLIMITED == "9223372036854771712"

\* A tier that accepts whatever parses, with no "unlimited" check
LimitAnyAccept(path, bound) ==
    LET text == ReadToString(path)
    IN  IF IsSome(text) THEN ParseU64(Trim(Unwrap(text))) ELSE None

\* One tier of a resolver: read the file, trim, parse as u64, and accept the
\* value when it is below `bound` (exclusive).
LimitBelowAccept(path, bound) ==
    LET text == ReadToString(path)
        parsed == IF IsSome(text) THEN ParseU64(Trim(Unwrap(text))) ELSE None
    IN  IF IsSome(parsed) /\ DecLt(Unwrap(parsed), bound) THEN parsed ELSE None

\* The v2 tiers of get_cgroup_memory_limit_for_path: limit < u64::MAX
MemoryMaxTier(path) == LimitBelowAccept(path, U64_MAX)

\* The v1 tiers: limit < 9223372036854771712
MemoryLimitInBytesTier(path) == LimitBelowAccept(path, V1_UNLIMITED)

\* The first Some of a sequence of Options, or None
RECURSIVE FirstSome(_)
FirstSome(os) ==
    IF Len(os) = 0 THEN None
    ELSE IF IsSome(Head(os)) THEN Head(os)
    ELSE FirstSome(Tail(os))

\* The tiers with each root tried before its node
memory_limit_root_first(cgroup_path) ==
    FirstSome(<<
        MemoryMaxTier("/sys/fs/cgroup/memory.max"),
        MemoryMaxTier("/sys/fs/cgroup" \o cgroup_path \o "/memory.max"),
        MemoryLimitInBytesTier("/sys/fs/cgroup/memory/memory.limit_in_bytes"),
        MemoryLimitInBytesTier("/sys/fs/cgroup/memory" \o cgroup_path
                                   \o "/memory.limit_in_bytes")
    >>)

get_cgroup_memory_limit_for_path(cgroup_path) ==
    FirstSome(<<
        MemoryMaxTier("/sys/fs/cgroup" \o cgroup_path \o "/memory.max"),
        MemoryMaxTier("/sys/fs/cgroup/memory.max"),
        MemoryLimitInBytesTier("/sys/fs/cgroup/memory" \o cgroup_path
                                   \o "/memory.limit_in_bytes"),
        MemoryLimitInBytesTier("/sys/fs/cgroup/memory/memory.limit_in_bytes")
    >>)

\* A usage tier that refuses u64::MAX as the limit tiers do
UsageTierBelowMax(path) == LimitBelowAccept(path, "18446744073709551615")

\* One tier of get_cgroup_memory_usage_for_path: any parsed u64 is accepted.
UsageTier(path) ==
    LET text == ReadToString(path)
    IN  IF IsSome(text) THEN ParseU64(Trim(Unwrap(text))) ELSE None

\* The usage tiers with each root tried before its node
memory_usage_root_first(cgroup_path) ==
    FirstSome(<<
        UsageTier("/sys/fs/cgroup/memory.current"),
        UsageTier("/sys/fs/cgroup" \o cgroup_path \o "/memory.current"),
        UsageTier("/sys/fs/cgroup/memory/memory.usage_in_bytes"),
        UsageTier("/sys/fs/cgroup/memory" \o cgroup_path
                      \o "/memory.usage_in_bytes")
    >>)

get_cgroup_memory_usage_for_path(cgroup_path) ==
    FirstSome(<<
        UsageTier("/sys/fs/cgroup" \o cgroup_path \o "/memory.current"),
        UsageTier("/sys/fs/cgroup/memory.current"),
        UsageTier("/sys/fs/cgroup/memory" \o cgroup_path
                      \o "/memory.usage_in_bytes"),
        UsageTier("/sys/fs/cgroup/memory/memory.usage_in_bytes")
    >>)

(***************************************************************************)
(* f64.  A double is [cls, neg, exp, mant]: cls is "nan", "inf", "zero" or *)
(* "normal"; a normal double is (-1)^neg * 1.b2...b53 * 2^exp with mant    *)
(* the 53 bits b1..b53, b1 = 1.  Quota and period operands are i64 values  *)
(* of at most 9 decimal digits here, so that `as f64` is exact and the     *)
(* long division stays within the model checker's integers.                *)
(***************************************************************************)
\* f64::MANTISSA_DIGITS
F64_MANTISSA_DIGITS == 53

F64Nan == [cls |-> "nan", neg |-> FALSE, exp |-> 0, mant |-> <<>>]

F64Inf(neg) == [cls |-> "inf", neg |-> neg, exp |-> 0, mant |-> <<>>]

F64Zero(neg) == [cls |-> "zero", neg |-> neg, exp |-> 0, mant |-> <<>>]

RECURSIVE DecToInt(_)
DecToInt(s) ==
    IF Len(s) = 0 THEN 0
    ELSE 10 * DecToInt(SubSeq(s, 1, Len(s) - 1)) + DigitVal(Char(s, Len(s)))

\* Scale a/b by powers of two into [1, 2): <<a', b', e>> with b' <= a' < 2b'
\* and a/b = (a'/b') * 2^e.
RECURSIVE ScaleRatio(_, _, _)
ScaleRatio(a, b, e) ==
    IF a < b THEN ScaleRatio(2 * a, b, e - 1)
    ELSE IF a >= 2 * b THEN ScaleRatio(a, 2 * b, e + 1)
    ELSE <<a, b, e>>

\* n further quotient bits of rem/b, rem < b
RECURSIVE QuotientBits(_, _, _)
QuotientBits(rem, b, n) ==
    IF n = 0 THEN <<>>
    ELSE LET bit == IF 2 * rem >= b THEN 1 ELSE 0
         IN  <<bit>> \o QuotientBits(2 * rem - bit * b, b, n - 1)

\* the remainder left after those n bits
RECURSIVE QuotientRem(_, _, _)
QuotientRem(rem, b, n) ==
    IF n = 0 THEN rem
    ELSE QuotientRem(2 * rem - (IF 2 * rem >= b THEN b ELSE 0), b, n - 1)

\* bits + 1; all ones wrap to all zeros
RECURSIVE IncBits(_)
IncBits(bits) ==
    IF Len(bits) = 0 THEN <<>>
    ELSE IF bits[Len(bits)] = 0
    THEN SubSeq(bits, 1, Len(bits) - 1) \o <<1>>
    ELSE IncBits(SubSeq(bits, 1, Len(bits) - 1)) \o <<0>>

\* The correctly rounded (to nearest, ties to even) quotient of the positive
\* integers a and b.
RoundedQuotient(a, b, neg) ==
    LET sc    == ScaleRatio(a, b, 0)
        bits  == <<1>> \o QuotientBits(sc[1] - sc[2], sc[2],
                                       F64_MANTISSA_DIGITS - 1)
        rem   == QuotientRem(sc[1] - sc[2], sc[2], F64_MANTISSA_DIGITS - 1)
        up    == 2 * rem > sc[2]
                    \/ (2 * rem = sc[2] /\ bits[F64_MANTISSA_DIGITS] = 1)
        carry == up /\ \A i \in 1..F64_MANTISSA_DIGITS : bits[i] = 1
    IN  [cls  |-> "normal",
         neg  |-> neg,
         exp  |-> IF carry THEN sc[3] + 1 ELSE sc[3],
         mant |-> IF carry
                  THEN <<1>> \o [i \in 1..(F64_MANTISSA_DIGITS - 1) |-> 0]
                  ELSE IF up THEN IncBits(bits) ELSE bits]

\* `quota as f64 / period as f64` for two i64 values
F64Div(quota, period) ==
    IF period.mag = "0"
    THEN IF quota.mag = "0" THEN F64Nan ELSE F64Inf(quota.neg)
    ELSE IF quota.mag = "0" THEN F64Zero(period.neg)
    ELSE RoundedQuotient(DecToInt(quota.mag), DecToInt(period.mag),
                         quota.neg # period.neg)

(***************************************************************************)
(* CPU quota                                                               *)
(***************************************************************************)
\* The block with the division turned over: period / quota
CpuMaxBlockInverted(cpu_max) ==
    LET parts  == SplitWhitespace(Trim(cpu_max))
        quota  == ParseI64(parts[1])
        period == ParseI64(parts[2])
    IN  IF Len(parts) = 2 /\ parts[1] # "max"
        THEN [returns |-> TRUE,
              value   |-> IF IsSome(quota) /\ IsSome(period)
                          THEN Some(F64Div(Unwrap(period), Unwrap(quota)))
                          ELSE None]
        ELSE [returns |-> FALSE, value |-> None]

\* The block both attempts of read_cgroup_v2_cpu_quota_for_path run on the
\* text of a cpu.max file.  When the text has two fields and the first is not
\* "max", the function returns from inside the block: Ok(quota / period), or
\* the parse error the `?` operator propagates.  Otherwise the block falls
\* through.
CpuMaxBlock(cpu_max) ==
    LET parts  == SplitWhitespace(Trim(cpu_max))
        quota  == ParseI64(parts[1])
        period == ParseI64(parts[2])
    IN  IF Len(parts) = 2 /\ parts[1] # "max"
        THEN [returns |-> TRUE,
              value   |-> IF IsSome(quota) /\ IsSome(period)
                          THEN Some(F64Div(Unwrap(quota), Unwrap(period)))
                          ELSE None]
        ELSE [returns |-> FALSE, value |-> None]

read_cgroup_v2_cpu_quota_for_path(cgroup_path) ==
    LET node == ReadToString("/sys/fs/cgroup" \o cgroup_path \o "/cpu.max")
        root == ReadToString("/sys/fs/cgroup/cpu.max")
    IN  IF IsSome(node) /\ CpuMaxBlock(Unwrap(node)).returns
        THEN CpuMaxBlock(Unwrap(node)).value
        ELSE IF IsNone(root) THEN None
        ELSE CpuMaxBlock(Unwrap(root)).value

\* The test on a pair of files without `quota > 0 && period > 0`
CfsQuotaAnySign(quota_path, period_path) ==
    LET quota_str  == ReadToString(quota_path)
        period_str == ReadToString(period_path)
        quota  == IF IsSome(quota_str)
                  THEN ParseI64(Trim(Unwrap(quota_str))) ELSE None
        period == IF IsSome(period_str)
                  THEN ParseI64(Trim(Unwrap(period_str))) ELSE None
    IN  IF IsSome(quota) /\ IsSome(period)
        THEN Some(F64Div(Unwrap(quota), Unwrap(period)))
        ELSE None

\* The test read_cgroup_v1_cpu_quota and read_cgroup_v1_cpu_quota_for_path
\* apply to a pair of files: both readable, both i64, both > 0.
CfsQuota(quota_path, period_path) ==
    LET quota_str  == ReadToString(quota_path)
        period_str == ReadToString(period_path)
        quota  == IF IsSome(quota_str)
                  THEN ParseI64(Trim(Unwrap(quota_str))) ELSE None
        period == IF IsSome(period_str)
                  THEN ParseI64(Trim(Unwrap(period_str))) ELSE None
    IN  IF /\ IsSome(quota) /\ IsSome(period)
           /\ I64Positive(Unwrap(quota)) /\ I64Positive(Unwrap(period))
        THEN Some(F64Div(Unwrap(quota), Unwrap(period)))
        ELSE None

read_cgroup_v1_cpu_quota ==
    CfsQuota("/sys/fs/cgroup/cpu/cpu.cfs_quota_us",
             "/sys/fs/cgroup/cpu/cpu.cfs_period_us")

read_cgroup_v1_cpu_quota_for_path(cgroup_path) ==
    LET node == CfsQuota(
                  "/sys/fs/cgroup/cpu" \o cgroup_path \o "/cpu.cfs_quota_us",
                  "/sys/fs/cgroup/cpu" \o cgroup_path \o "/cpu.cfs_period_us")
    IN  IF IsSome(node) THEN node ELSE read_cgroup_v1_cpu_quota

\* The CPU quota from the v1 files alone
cpu_quota_v1_only(cgroup_path) ==
    read_cgroup_v1_cpu_quota_for_path(cgroup_path)

get_cgroup_cpu_quota_for_path(cgroup_path) ==
    LET v2 == read_cgroup_v2_cpu_quota_for_path(cgroup_path)
    IN  IF IsSome(v2) THEN v2
        ELSE read_cgroup_v1_cpu_quota_for_path(cgroup_path)

\* The quota of the root, whatever cgroup the process is in
get_cgroup_cpu_quota_of_root == get_cgroup_cpu_quota_for_path("")

get_cgroup_cpu_quota == get_cgroup_cpu_quota_for_path(get_current_cgroup_path)

(***************************************************************************)
(* Advisory checks                                                         *)
(***************************************************************************)
is_default_user_slice_path(cgroup_path) ==
    StartsWith(cgroup_path, "/user.slice/user-")
        /\ Contains(cgroup_path, "/session-")

\* `p != r` for two Option<String> cpuset listings, both present and non-empty
CpusetDiffers(path_cpuset, root_cpuset) ==
    /\ IsSome(path_cpuset) /\ IsSome(root_cpuset)
    /\ Unwrap(path_cpuset) # "" /\ Unwrap(root_cpuset) # ""
    /\ Unwrap(path_cpuset) # Unwrap(root_cpuset)

has_explicit_limits_at_path(cgroup_path) ==
    LET line  == read_trimmed("/sys/fs/cgroup" \o cgroup_path \o "/cpu.max")
        val   == read_trimmed("/sys/fs/cgroup" \o cgroup_path \o "/memory.max")
        qs    == read_trimmed("/sys/fs/cgroup/cpu" \o cgroup_path
                                  \o "/cpu.cfs_quota_us")
        ps    == read_trimmed("/sys/fs/cgroup/cpu" \o cgroup_path
                                  \o "/cpu.cfs_period_us")
        q     == IF IsSome(qs) THEN ParseI64(Unwrap(qs)) ELSE None
        p     == IF IsSome(ps) THEN ParseI64(Unwrap(ps)) ELSE None
        ls    == read_trimmed("/sys/fs/cgroup/memory" \o cgroup_path
                                  \o "/memory.limit_in_bytes")
        limit == IF IsSome(ls) THEN ParseU64(Unwrap(ls)) ELSE None
    IN  IF PathExists("/sys/fs/cgroup/cgroup.controllers")
        THEN \/ /\ IsSome(line)
                /\ Len(SplitWhitespace(Unwrap(line))) = 2
                /\ SplitWhitespace(Unwrap(line))[1] # "max"
             \/ IsSome(val) /\ Unwrap(val) # "max"
             \/ CpusetDiffers(
                  read_trimmed("/sys/fs/cgroup" \o cgroup_path
                                   \o "/cpuset.cpus.effective"),
                  read_trimmed("/sys/fs/cgroup/cpuset.cpus.effective"))
        ELSE \/ /\ IsSome(q) /\ IsSome(p)
                /\ I64Positive(Unwrap(q)) /\ I64Positive(Unwrap(p))
             \/ IsSome(limit) /\ DecLt(Unwrap(limit), V1_UNLIMITED)
             \/ CpusetDiffers(
                  read_trimmed("/sys/fs/cgroup/cpuset" \o cgroup_path
                                   \o "/cpuset.cpus"),
                  read_trimmed("/sys/fs/cgroup/cpuset/cpuset.cpus"))

(***************************************************************************)
(* System memory and CPU topology                                          *)
(***************************************************************************)
parse_meminfo_line(line) ==
    LET parts == SplitWhitespace(line)
    IN  IF Len(parts) >= 2 THEN ParseU64(parts[2]) ELSE None

\* The value the loop of get_system_memory_from_proc leaves in total_kb or
\* available_kb: that of the last line with the label whose value parses,
\* starting from `kb`.
RECURSIVE MeminfoField(_, _, _)
MeminfoField(lines, label, kb) ==
    IF Len(lines) = 0 THEN kb
    ELSE MeminfoField(
           Tail(lines), label,
           IF StartsWith(Head(lines), label)
                 /\ IsSome(parse_meminfo_line(Head(lines)))
           THEN Unwrap(parse_meminfo_line(Head(lines)))
           ELSE kb)

\* a * 2^n, unbounded
RECURSIVE ShiftLeft(_, _)
ShiftLeft(a, n) ==
    IF n = 0 \/ a = "0" THEN a ELSE ShiftLeft(DecAdd(a, a), n - 1)

\* a * 2^n modulo 2^64, for a < 2^64: doubling a value of 2^63 or more wraps
RECURSIVE WrappingShiftLeft(_, _)
WrappingShiftLeft(a, n) ==
    IF n = 0 THEN a
    ELSE IF DecLt(a, I64_MIN_MAGNITUDE)
    THEN WrappingShiftLeft(DecAdd(a, a), n - 1)
    ELSE WrappingShiftLeft(DecSub(DecAdd(a, a), TWO_64), n - 1)

\* log2 of the factor 1024 of `total_kb * 1024`
KB_SHIFT == 10

\* Whether `kb * 1024` exceeds u64::MAX
Mul1024Overflows(kb) == DecLt(U64_MAX, ShiftLeft(kb, KB_SHIFT))

\* `kb * 1024` as the u64 multiplication computes it when it does not abort
Mul1024(kb) == WrappingShiftLeft(kb, KB_SHIFT)

\* The pair (total_kb, available_kb) the loop of get_system_memory_from_proc
\* ends with.
MeminfoKb ==
    LET contents == ReadToString("/proc/meminfo")
        lines    == IF IsSome(contents) THEN Lines(Unwrap(contents)) ELSE <<>>
    IN  <<MeminfoField(lines, "MemTotal:", "0"),
          MeminfoField(lines, "MemAvailable:", "0")>>

\* The multiplications of get_system_memory_from_proc overflow u64: the
\* program aborts when built with overflow checks and wraps otherwise.
MeminfoOverflows ==
    Mul1024Overflows(MeminfoKb[1]) \/ Mul1024Overflows(MeminfoKb[2])

get_system_memory_from_proc == <<Mul1024(MeminfoKb[1]), Mul1024(MeminfoKb[2])>>

\* u64::wrapping_sub
wrapping_sub(a, b) ==
    IF DecLt(a, b) THEN DecSub(DecAdd(a, TWO_64), b) ELSE DecSub(a, b)

\* u64::saturating_sub
saturating_sub(a, b) == IF DecLt(a, b) THEN "0" ELSE DecSub(a, b)

\* The count taken from num_cpus::get() at once
get_system_cpu_count_runtime == host.num_cpus

\* The count with sysconf's answer taken as it comes
get_system_cpu_count_unchecked ==
    LET contents == ReadToString("/proc/cpuinfo")
        lines    == IF IsSome(contents) THEN Lines(Unwrap(contents)) ELSE <<>>
        count    == Cardinality({i \in 1..Len(lines) :
                                   StartsWith(lines[i], "processor")})
    IN  IF count > 0 THEN count ELSE host.sysconf

get_system_cpu_count ==
    LET contents == ReadToString("/proc/cpuinfo")
        lines    == IF IsSome(contents) THEN Lines(Unwrap(contents)) ELSE <<>>
        count    == Cardinality({i \in 1..Len(lines) :
                                   StartsWith(lines[i], "processor")})
    IN  IF count > 0 THEN count
        ELSE IF host.sysconf > 0 THEN host.sysconf
        ELSE host.num_cpus

\* line.split(':').nth(1).and_then(|s| s.trim().parse::<usize>().ok())
CpuinfoValue(line) ==
    IF Len(Split(line, ":")) >= 2
    THEN ParseU64(Trim(Split(line, ":")[2]))
    ELSE None

\* The set core_ids after the loop over the remaining lines, from the
\* current_physical_id and core_ids reached so far.
RECURSIVE CoreIds(_, _, _)
CoreIds(lines, current_physical_id, core_ids) ==
    IF Len(lines) = 0 THEN core_ids
    ELSE IF StartsWith(Head(lines), "physical id")
    THEN CoreIds(Tail(lines), CpuinfoValue(Head(lines)), core_ids)
    ELSE IF /\ StartsWith(Head(lines), "core id")
            /\ IsSome(current_physical_id)
            /\ IsSome(CpuinfoValue(Head(lines)))
    THEN CoreIds(Tail(lines), current_physical_id,
                 core_ids \cup {<<Unwrap(current_physical_id),
                                  Unwrap(CpuinfoValue(Head(lines)))>>})
    ELSE CoreIds(Tail(lines), current_physical_id, core_ids)

get_system_physical_cpu_count ==
    LET contents == ReadToString("/proc/cpuinfo")
        lines    == IF IsSome(contents) THEN Lines(Unwrap(contents)) ELSE <<>>
        core_ids == CoreIds(lines, None, {})
    IN  IF core_ids # {} THEN Cardinality(core_ids) ELSE host.num_physical

\* The detection with the v1 mount points looked at first
DetectCgroupVersionV1First ==
    LET cgroup_v2 == PathExists("/sys/fs/cgroup/cgroup.controllers")
        cgroup_v1 == PathExists("/sys/fs/cgroup/cpu")
                        \/ PathExists("/sys/fs/cgroup/memory")
    IN  IF cgroup_v1 THEN Some("v1")
        ELSE IF cgroup_v2 THEN Some("v2")
        ELSE None

\* The cgroup version main derives from the marker paths
DetectCgroupVersion ==
    LET cgroup_v2 == PathExists("/sys/fs/cgroup/cgroup.controllers")
        cgroup_v1 == PathExists("/sys/fs/cgroup/cpu")
                        \/ PathExists("/sys/fs/cgroup/memory")
    IN  IF cgroup_v2 THEN Some("v2")
        ELSE IF cgroup_v1 THEN Some("v1")
        ELSE None

(***************************************************************************)
(* main.  pc is the statement main is about to run; the other variables    *)
(* are its locals, and out is the sequence of report sections printed.     *)
(* host holds what the platform answers: num_cpus::get(),                  *)
(* num_cpus::get_physical() and sysconf(_SC_NPROCESSORS_ONLN); cli is the  *)
(* parsed command line.                                                    *)
(***************************************************************************)
VARIABLES pc, system_logical_cpus, system_physical_cpus, available_cpus,
          cgroup_path, cgroup_cpu_quota, system_total, system_available,
          system_used, cgroup_memory_limit, cgroup_memory_usage,
          cgroup_version, out

env == <<fs, host, cli>>

locals == <<system_logical_cpus, system_physical_cpus, available_cpus,
            cgroup_path, cgroup_cpu_quota, system_total, system_available,
            system_used, cgroup_memory_limit, cgroup_memory_usage,
            cgroup_version>>

vars == <<fs, host, cli, pc, system_logical_cpus, system_physical_cpus,
          available_cpus, cgroup_path, cgroup_cpu_quota, system_total,
          system_available, system_used, cgroup_memory_limit,
          cgroup_memory_usage, cgroup_version, out>>

\* let system_logical_cpus = get_system_cpu_count();
GatherLogicalCpus ==
    /\ pc = "system_logical_cpus"
    /\ system_logical_cpus' = get_system_cpu_count
    /\ pc' = "system_physical_cpus"
    /\ UNCHANGED <<env, system_physical_cpus, available_cpus, cgroup_path,
                   cgroup_cpu_quota, system_total, system_available,
                   system_used, cgroup_memory_limit, cgroup_memory_usage,
                   cgroup_version, out>>

\* let system_physical_cpus = get_system_physical_cpu_count();
GatherPhysicalCpus ==
    /\ pc = "system_physical_cpus"
    /\ system_physical_cpus' = get_system_physical_cpu_count
    /\ pc' = "available_cpus"
    /\ UNCHANGED <<env, system_logical_cpus, available_cpus, cgroup_path,
                   cgroup_cpu_quota, system_total, system_available,
                   system_used, cgroup_memory_limit, cgroup_memory_usage,
                   cgroup_version, out>>

\* let available_cpus = num_cpus::get();
GatherAvailableCpus ==
    /\ pc = "available_cpus"
    /\ available_cpus' = host.num_cpus
    /\ pc' = "cgroup_path"
    /\ UNCHANGED <<env, system_logical_cpus, system_physical_cpus, cgroup_path,
                   cgroup_cpu_quota, system_total, system_available,
                   system_used, cgroup_memory_limit, cgroup_memory_usage,
                   cgroup_version, out>>

\* let cgroup_path = get_current_cgroup_path();
GatherCgroupPath ==
    /\ pc = "cgroup_path"
    /\ cgroup_path' = get_current_cgroup_path
    /\ pc' = "cgroup_cpu_quota"
    /\ UNCHANGED <<env, system_logical_cpus, system_physical_cpus,
                   available_cpus, cgroup_cpu_quota, system_total,
                   system_available, system_used, cgroup_memory_limit,
                   cgroup_memory_usage, cgroup_version, out>>

\* let cgroup_cpu_quota = get_cgroup_cpu_quota_for_path(&cgroup_path);
GatherCpuQuota ==
    /\ pc = "cgroup_cpu_quota"
    /\ cgroup_cpu_quota' = get_cgroup_cpu_quota_for_path(cgroup_path)
    /\ pc' = "system_memory"
    /\ UNCHANGED <<env, system_logical_cpus, system_physical_cpus,
                   available_cpus, cgroup_path, system_total, system_available,
                   system_used, cgroup_memory_limit, cgroup_memory_usage,
                   cgroup_version, out>>

\* let (system_total, system_available) = get_system_memory_from_proc();
\* let system_used = system_total.saturating_sub(system_available);
\* An overflowing multiplication either aborts the program or wraps, by the
\* build's overflow checks.
GatherSystemMemory ==
    /\ pc = "system_memory"
    /\ \/ /\ MeminfoOverflows
          /\ pc' = "panicked"
          /\ UNCHANGED <<system_total, system_available, system_used>>
       \/ /\ system_total' = get_system_memory_from_proc[1]
          /\ system_available' = get_system_memory_from_proc[2]
          /\ system_used' = saturating_sub(get_system_memory_from_proc[1],
                                           get_system_memory_from_proc[2])
          /\ pc' = "cgroup_memory_limit"
    /\ UNCHANGED <<env, system_logical_cpus, system_physical_cpus,
                   available_cpus, cgroup_path, cgroup_cpu_quota,
                   cgroup_memory_limit, cgroup_memory_usage, cgroup_version,
                   out>>

\* let cgroup_memory_limit = get_cgroup_memory_limit_for_path(&cgroup_path);
GatherMemoryLimit ==
    /\ pc = "cgroup_memory_limit"
    /\ cgroup_memory_limit' = get_cgroup_memory_limit_for_path(cgroup_path)
    /\ pc' = "cgroup_memory_usage"
    /\ UNCHANGED <<env, system_logical_cpus, system_physical_cpus,
                   available_cpus, cgroup_path, cgroup_cpu_quota, system_total,
                   system_available, system_used, cgroup_memory_usage,
                   cgroup_version, out>>

\* let cgroup_memory_usage = get_cgroup_memory_usage_for_path(&cgroup_path);
GatherMemoryUsage ==
    /\ pc = "cgroup_memory_usage"
    /\ cgroup_memory_usage' = get_cgroup_memory_usage_for_path(cgroup_path)
    /\ pc' = "cgroup_version"
    /\ UNCHANGED <<env, system_logical_cpus, system_physical_cpus,
                   available_cpus, cgroup_path, cgroup_cpu_quota, system_total,
                   system_available, system_used, cgroup_memory_limit,
                   cgroup_version, out>>

\* let cgroup_version = if cgroup_v2 { .. } else if cgroup_v1 { .. } else { None };
DetectVersion ==
    /\ pc = "cgroup_version"
    /\ cgroup_version' = DetectCgroupVersion
    /\ pc' = "report"
    /\ UNCHANGED <<env, system_logical_cpus, system_physical_cpus,
                   available_cpus, cgroup_path, cgroup_cpu_quota, system_total,
                   system_available, system_used, cgroup_memory_limit,
                   cgroup_memory_usage, out>>

(***************************************************************************)
(* The reports.  A section of out is a record of the values the program    *)
(* prints; byte counts are kept as numbers (humanize_bytes_binary! and the *)
(* JSON serializer are external).                                          *)
(***************************************************************************)
\* let constrained_cpu = available_cpus < system_logical_cpus;
constrained_cpu(available, logical) == available < logical

\* The memory verdict with <= in place of <
constrained_mem_inclusive(limit, total) ==
    IF IsSome(limit) THEN ~DecLt(total, Unwrap(limit)) ELSE FALSE

\* let constrained_mem = cgroup_memory_limit.map(|lim| lim < system_total)
\*                                          .unwrap_or(false);
constrained_mem(limit, total) ==
    IF IsSome(limit) THEN DecLt(Unwrap(limit), total) ELSE FALSE

\* The percentage with its operands exchanged
UsagePercentOfLimitInUsage(current_usage, cgroup_limit) ==
    [usage |-> cgroup_limit, limit |-> current_usage]

\* (current_usage as f64 / cgroup_limit as f64) * 100.0, kept as the pair of
\* operands it is computed from
UsagePercent(current_usage, cgroup_limit) ==
    [usage |-> current_usage, limit |-> cgroup_limit]

DetailedReport ==
    [section |-> "json_detailed",
     cpu     |-> [system_logical_cpus  |-> system_logical_cpus,
                  system_physical_cpus |-> system_physical_cpus,
                  available_cpus       |-> available_cpus,
                  cgroup_cpu_quota     |-> cgroup_cpu_quota],
     memory  |-> [system_total_bytes        |-> system_total,
                  system_available_bytes    |-> system_available,
                  system_used_bytes         |-> system_used,
                  cgroup_memory_limit_bytes |-> cgroup_memory_limit,
                  cgroup_memory_usage_bytes |-> cgroup_memory_usage],
     cgroup  |-> [version            |-> cgroup_version,
                  current_path       |-> cgroup_path,
                  cpu_quota          |-> cgroup_cpu_quota,
                  memory_limit_bytes |-> cgroup_memory_limit]]

SimpleReport ==
    [section |-> "json_simple",
     cpu     |-> [available_cpus      |-> available_cpus,
                  system_logical_cpus |-> system_logical_cpus,
                  constrained         |-> constrained_cpu(available_cpus,
                                                          system_logical_cpus)],
     memory  |-> [system_available_bytes    |-> system_available,
                  cgroup_memory_limit_bytes |-> cgroup_memory_limit,
                  constrained |-> constrained_mem(cgroup_memory_limit,
                                                  system_total)]]

\* The "CGroup:" line of the summary
CgroupNote(path) ==
    IF is_default_user_slice_path(path) /\ ~has_explicit_limits_at_path(path)
    THEN "default user slice (no explicit limits)"
    ELSE IF path # "" /\ path # "/"
    THEN IF has_explicit_limits_at_path(path)
         THEN "limits present"
         ELSE "no explicit limits"
    ELSE ""

SummaryText ==
    [section |-> "summary",
     cpu     |-> [constrained         |-> available_cpus < system_logical_cpus,
                  available_cpus      |-> available_cpus,
                  system_logical_cpus |-> system_logical_cpus],
     memory  |-> [limited_to       |-> cgroup_memory_limit,
                  system_available |-> system_available],
     cgroup  |-> CgroupNote(cgroup_path)]

\* What print_cpu_info prints: it reads everything again.
CpuInfoText ==
    [section              |-> "cpu_info",
     system_logical_cpus  |-> get_system_cpu_count,
     system_physical_cpus |-> get_system_physical_cpu_count,
     available_cpus       |-> host.num_cpus,
     constrained          |-> host.num_cpus < get_system_cpu_count,
     cgroup_cpu_quota     |-> get_cgroup_cpu_quota]

\* What print_memory_info prints: it reads everything again.  The limit line
\* is printed when a limit resolves, the warning when it is below the total,
\* and the usage line, with its percentage, inside that when a usage
\* resolves.
MemoryInfoText ==
    LET memory   == get_system_memory_from_proc
        path     == get_current_cgroup_path
        limit    == get_cgroup_memory_limit_for_path(path)
        warned   == IsSome(limit) /\ DecLt(Unwrap(limit), memory[1])
        usage    == IF warned THEN get_cgroup_memory_usage_for_path(path)
                    ELSE None
    IN  [section             |-> "memory_info",
         system_total        |-> memory[1],
         system_available    |-> memory[2],
         system_used         |-> saturating_sub(memory[1], memory[2]),
         cgroup_memory_limit |-> limit,
         constrained         |-> warned,
         cgroup_memory_usage |-> usage,
         usage_percent       |-> IF IsSome(usage)
                                 THEN Some(UsagePercent(Unwrap(usage),
                                                        Unwrap(limit)))
                                 ELSE None]

\* What print_cgroup_info prints: it reads everything again.
CgroupInfoText ==
    LET contents == ReadToString("/proc/self/cgroup")
        path     == get_current_cgroup_path
        scoped   == path # "" /\ path # "/"
    IN  [section         |-> "cgroup_info",
         version         |-> DetectCgroupVersion,
         process_cgroups |-> IF IsSome(contents)
                             THEN Some(SelectSeq(Lines(Unwrap(contents)),
                                                 LAMBDA l : l # ""))
                             ELSE None,
         cpu_quota       |-> IF scoped THEN get_cgroup_cpu_quota_for_path(path)
                             ELSE None,
         memory_limit    |-> IF scoped
                             THEN get_cgroup_memory_limit_for_path(path)
                             ELSE None,
         default_note    |-> /\ scoped
                             /\ is_default_user_slice_path(path)
                             /\ ~has_explicit_limits_at_path(path)]

\* if cli.json { if cli.verbose { println!(DetailedReport) ..; return; } }
EmitJsonDetailed ==
    /\ pc = "report"
    /\ cli.json /\ cli.verbose
    /\ out' = Append(out, DetailedReport)
    /\ pc' = "done"
    /\ UNCHANGED <<env, locals>>

\* if cli.json { .. else { println!(SimpleReport) } return; }
EmitJsonSimple ==
    /\ pc = "report"
    /\ cli.json /\ ~cli.verbose
    /\ out' = Append(out, SimpleReport)
    /\ pc' = "done"
    /\ UNCHANGED <<env, locals>>

\* if cli.verbose { ..; print_cpu_info();
PrintCpuInfo ==
    /\ pc = "report"
    /\ ~cli.json /\ cli.verbose
    /\ out' = Append(out, CpuInfoText)
    /\ pc' = "print_memory_info"
    /\ UNCHANGED <<env, locals>>

\* print_memory_info();  Its multiplications may abort as in main.
PrintMemoryInfo ==
    /\ pc = "print_memory_info"
    /\ \/ /\ MeminfoOverflows
          /\ pc' = "panicked"
          /\ UNCHANGED out
       \/ /\ out' = Append(out, MemoryInfoText)
          /\ pc' = "print_cgroup_info"
    /\ UNCHANGED <<env, locals>>

\* print_cgroup_info(); return; }
PrintCgroupInfo ==
    /\ pc = "print_cgroup_info"
    /\ out' = Append(out, CgroupInfoText)
    /\ pc' = "done"
    /\ UNCHANGED <<env, locals>>

\* The simple summary output
EmitSummary ==
    /\ pc = "report"
    /\ ~cli.json /\ ~cli.verbose
    /\ out' = Append(out, SummaryText)
    /\ pc' = "done"
    /\ UNCHANGED <<env, locals>>

Next ==
    \/ GatherLogicalCpus
    \/ GatherPhysicalCpus
    \/ GatherAvailableCpus
    \/ GatherCgroupPath
    \/ GatherCpuQuota
    \/ GatherSystemMemory
    \/ GatherMemoryLimit
    \/ GatherMemoryUsage
    \/ DetectVersion
    \/ EmitJsonDetailed
    \/ EmitJsonSimple
    \/ PrintCpuInfo
    \/ PrintMemoryInfo
    \/ PrintCgroupInfo
    \/ EmitSummary

(***************************************************************************)
(* Environments.  The model's file system holds the paths the program      *)
(* reads for the process's cgroup "/a" and for the root.                   *)
(***************************************************************************)
Paths ==
    {"/proc/self/cgroup", "/proc/meminfo", "/proc/cpuinfo",
     "/sys/fs/cgroup/cgroup.controllers",
     "/sys/fs/cgroup/cpu.max", "/sys/fs/cgroup/a/cpu.max",
     "/sys/fs/cgroup/memory.max", "/sys/fs/cgroup/a/memory.max",
     "/sys/fs/cgroup/memory.current", "/sys/fs/cgroup/a/memory.current",
     "/sys/fs/cgroup/cpuset.cpus.effective",
     "/sys/fs/cgroup/a/cpuset.cpus.effective",
     "/sys/fs/cgroup/cpu", "/sys/fs/cgroup/memory", "/sys/fs/cgroup/cpuset",
     "/sys/fs/cgroup/cpu/cpu.cfs_quota_us",
     "/sys/fs/cgroup/cpu/cpu.cfs_period_us",
     "/sys/fs/cgroup/cpu/a/cpu.cfs_quota_us",
     "/sys/fs/cgroup/cpu/a/cpu.cfs_period_us",
     "/sys/fs/cgroup/memory/memory.limit_in_bytes",
     "/sys/fs/cgroup/memory/a/memory.limit_in_bytes",
     "/sys/fs/cgroup/memory/memory.usage_in_bytes",
     "/sys/fs/cgroup/memory/a/memory.usage_in_bytes",
     "/sys/fs/cgroup/cpuset/cpuset.cpus",
     "/sys/fs/cgroup/cpuset/a/cpuset.cpus"}

\* The v1 controller mount points: directories that exist whenever anything
\* below them does.
Mounts == {"/sys/fs/cgroup/cpu", "/sys/fs/cgroup/memory", "/sys/fs/cgroup/cpuset"}

\* The file system holding the entries of `over` (a function from paths to
\* entries) and nothing else, but the directories those entries lie in.
Env(over) ==
    LET f == [p \in Paths |-> IF p \in DOMAIN over THEN over[p] ELSE Absent]
    IN  [p \in Paths |->
           IF /\ p \in Mounts
              /\ \E q \in Paths : StartsWith(q, p \o "/") /\ f[q].kind # "absent"
           THEN Dir
           ELSE f[p]]

\* A file system is well formed when everything present lies in a directory
\* that exists.
WellFormed(f) ==
    \A m \in Mounts : \A q \in Paths :
        StartsWith(q, m \o "/") /\ f[q].kind # "absent" => f[m].kind = "dir"

\* The largest CPU count of a host of the model
MaxCpus == 2

Hosts ==
    [num_cpus : 1..MaxCpus, num_physical : {1}, sysconf : {-1, MaxCpus}]

TypicalHost == [num_cpus |-> 2, num_physical |-> 1, sysconf |-> 2]

Clis == [verbose : BOOLEAN, json : BOOLEAN]

\* 2 GiB in total, 1 GiB available
TypicalMeminfo ==
    File("MemTotal:        2097152 kB\nMemFree:          524288 kB\nMemAvailable:    1048576 kB\n")

\* two hardware threads of one core
TypicalCpuinfo ==
    File("processor\t: 0\nphysical id\t: 0\ncore id\t\t: 0\n\nprocessor\t: 1\nphysical id\t: 0\ncore id\t\t: 0\n")

\* The process is in cgroup /a of the unified hierarchy, or in its root.
UnifiedListings == {File("0::/a\n"), File("0::/\n")}

\* The state main starts in, for a file system, a host and a command line.
Start(f, h, c) ==
    /\ fs = f
    /\ host = h
    /\ cli = c
    /\ pc = "system_logical_cpus"
    /\ system_logical_cpus = 0
    /\ system_physical_cpus = 0
    /\ available_cpus = 0
    /\ cgroup_path = ""
    /\ cgroup_cpu_quota = None
    /\ system_total = "0"
    /\ system_available = "0"
    /\ system_used = "0"
    /\ cgroup_memory_limit = None
    /\ cgroup_memory_usage = None
    /\ cgroup_version = None
    /\ out = <<>>

\* Texts of the node's memory.max: the v2 "no limit" token, 512 MiB, and
\* u64::MAX
NodeMemoryMaxTexts == {"max\n", "536870912\n", "18446744073709551615\n"}

\* Texts of the root's memory.max: the token, 1 GiB, and the value that
\* means "unlimited" in a v1 file
RootMemoryMaxTexts == {"max\n", "1073741824\n", "9223372036854771712\n"}

\* Texts of the node's memory.limit_in_bytes: the v1 "unlimited" value and
\* 256 MiB
NodeLimitInBytesTexts == {"9223372036854771712\n", "268435456\n"}

\* Texts of the root's memory.limit_in_bytes: the "unlimited" value and the
\* largest value below it
RootLimitInBytesTexts == {"9223372036854771712\n", "9223372036854771711\n"}

Files(texts) == {Absent} \cup {File(t) : t \in texts}

\* Environments that vary the four memory-limit files.
MemoryLimitEnvs ==
    {Env(("/proc/self/cgroup" :> listing)
           @@ ("/proc/meminfo" :> TypicalMeminfo)
           @@ ("/proc/cpuinfo" :> TypicalCpuinfo)
           @@ ("/sys/fs/cgroup/cgroup.controllers" :> File("cpu memory\n"))
           @@ ("/sys/fs/cgroup/a/memory.max" :> v2node)
           @@ ("/sys/fs/cgroup/memory.max" :> v2root)
           @@ ("/sys/fs/cgroup/memory/a/memory.limit_in_bytes" :> v1node)
           @@ ("/sys/fs/cgroup/memory/memory.limit_in_bytes" :> v1root)) :
        listing \in UnifiedListings,
        v2node \in Files(NodeMemoryMaxTexts),
        v2root \in Files(RootMemoryMaxTexts),
        v1node \in Files(NodeLimitInBytesTexts),
        v1root \in Files(RootLimitInBytesTexts)}

InitMemoryLimit ==
    \E f \in MemoryLimitEnvs, c \in Clis : Start(f, TypicalHost, c)

SpecMemoryLimit == InitMemoryLimit /\ [][Next]_vars

\* Texts of the node's cpu.max: no limit, one CPU, a third of a CPU, a
\* record whose quota is not a number, and a record whose period is zero
NodeCpuMaxTexts ==
    {"max 100000\n", "100000 100000\n", "100000 300000\n", "abc 100000\n",
     "50000 0\n"}

\* Texts of the root's cpu.max: no limit and half a CPU
RootCpuMaxTexts == {"max 100000\n", "50000 100000\n"}

\* cpu.cfs_quota_us and cpu.cfs_period_us of the node: both missing, one and
\* a half CPUs, the v1 "no limit" quota -1, a quota that is not a number, and
\* a quota without its period
NodeCfsPairs ==
    {<<Absent, Absent>>,
     <<File("150000\n"), File("100000\n")>>,
     <<File("-1\n"), File("100000\n")>>,
     <<File("max\n"), File("100000\n")>>,
     <<File("150000\n"), Absent>>}

\* The same two files of the root: both missing, two CPUs, no limit, and a
\* period of zero
RootCfsPairs ==
    {<<Absent, Absent>>,
     <<File("200000\n"), File("100000\n")>>,
     <<File("-1\n"), File("100000\n")>>,
     <<File("200000\n"), File("0\n")>>}

\* Environments that vary the CPU quota files of the process in cgroup /a.
CpuQuotaEnvs ==
    {Env(("/proc/self/cgroup" :> File("0::/a\n"))
           @@ ("/proc/meminfo" :> TypicalMeminfo)
           @@ ("/proc/cpuinfo" :> TypicalCpuinfo)
           @@ ("/sys/fs/cgroup/cgroup.controllers" :> File("cpu memory\n"))
           @@ ("/sys/fs/cgroup/a/cpu.max" :> v2node)
           @@ ("/sys/fs/cgroup/cpu.max" :> v2root)
           @@ ("/sys/fs/cgroup/cpu/a/cpu.cfs_quota_us" :> v1node[1])
           @@ ("/sys/fs/cgroup/cpu/a/cpu.cfs_period_us" :> v1node[2])
           @@ ("/sys/fs/cgroup/cpu/cpu.cfs_quota_us" :> v1root[1])
           @@ ("/sys/fs/cgroup/cpu/cpu.cfs_period_us" :> v1root[2])) :
        v2node \in Files(NodeCpuMaxTexts),
        v2root \in Files(RootCpuMaxTexts),
        v1node \in NodeCfsPairs,
        v1root \in RootCfsPairs}

InitCpuQuota ==
    \E f \in CpuQuotaEnvs, c \in Clis : Start(f, TypicalHost, c)

SpecCpuQuota == InitCpuQuota /\ [][Next]_vars

\* Texts of the four usage files: zero and text that is no number; u64::MAX
\* and an empty file; a page and a negative number; two pages and 2^64
NodeMemoryCurrentTexts == {"0\n", "abc\n"}

RootMemoryCurrentTexts == {"18446744073709551615\n", "\n"}

NodeUsageInBytesTexts == {"4096\n", "-5\n"}

RootUsageInBytesTexts == {"8192\n", "18446744073709551616\n"}

\* Environments that vary the four memory-usage files.
MemoryUsageEnvs ==
    {Env(("/proc/self/cgroup" :> listing)
           @@ ("/proc/meminfo" :> TypicalMeminfo)
           @@ ("/proc/cpuinfo" :> TypicalCpuinfo)
           @@ ("/sys/fs/cgroup/cgroup.controllers" :> File("cpu memory\n"))
           @@ ("/sys/fs/cgroup/a/memory.current" :> v2node)
           @@ ("/sys/fs/cgroup/memory.current" :> v2root)
           @@ ("/sys/fs/cgroup/memory/a/memory.usage_in_bytes" :> v1node)
           @@ ("/sys/fs/cgroup/memory/memory.usage_in_bytes" :> v1root)) :
        listing \in UnifiedListings,
        v2node \in Files(NodeMemoryCurrentTexts),
        v2root \in Files(RootMemoryCurrentTexts),
        v1node \in Files(NodeUsageInBytesTexts),
        v1root \in Files(RootUsageInBytesTexts)}

InitMemoryUsage ==
    \E f \in MemoryUsageEnvs, c \in Clis : Start(f, TypicalHost, c)

SpecMemoryUsage == InitMemoryUsage /\ [][Next]_vars

\* The three resolvers together: every environment of the three families.
InitResolvers == InitCpuQuota \/ InitMemoryLimit \/ InitMemoryUsage

SpecResolvers == InitResolvers /\ [][Next]_vars

\* /proc/meminfo with more available than in total: 1 GiB and 2 GiB
AvailableAboveTotalMeminfo ==
    File("MemTotal:        1048576 kB\nMemAvailable:    2097152 kB\n")

\* /proc/meminfo whose total, 2^54 kB, times 1024 is 2^64
OverflowingMeminfo ==
    File("MemTotal:        18014398509481984 kB\nMemAvailable:    1048576 kB\n")

\* /proc/meminfo whose MemTotal is no number and which has no MemAvailable
\* line
UnparsableMeminfo ==
    File("MemTotal:        lots kB\nMemFree:          524288 kB\n")

\* What /proc/meminfo may be: the files above, or missing
Meminfos ==
    {TypicalMeminfo, AvailableAboveTotalMeminfo, OverflowingMeminfo,
     UnparsableMeminfo, Absent}

\* Texts of the node's memory.max around the typical total of 2 GiB: the
\* total itself, one byte less, and twice as much
LimitsAroundTotalTexts == {"2147483648\n", "2147483647\n", "4294967296\n"}

\* Environments that vary the host, /proc/cpuinfo, /proc/meminfo and the
\* memory limit of the process in cgroup /a.
PlatformEnvs ==
    {Env(("/proc/self/cgroup" :> File("0::/a\n"))
           @@ ("/proc/meminfo" :> meminfo)
           @@ ("/proc/cpuinfo" :> cpuinfo)
           @@ ("/sys/fs/cgroup/cgroup.controllers" :> File("cpu memory\n"))
           @@ ("/sys/fs/cgroup/a/memory.max" :> limit)
           @@ ("/sys/fs/cgroup/a/memory.current" :> File("1073741824\n"))) :
        meminfo \in Meminfos,
        cpuinfo \in {TypicalCpuinfo, Absent},
        limit \in Files(LimitsAroundTotalTexts)}

InitPlatform ==
    \E f \in PlatformEnvs, h \in Hosts, c \in Clis : Start(f, h, c)

SpecPlatform == InitPlatform /\ [][Next]_vars

\* Environments that vary the three version markers and the root's files:
\* the process is in cgroup /a, which has no files of its own.
MarkerEnvs ==
    {Env(("/proc/self/cgroup" :> File("0::/a\n"))
           @@ ("/proc/meminfo" :> TypicalMeminfo)
           @@ ("/proc/cpuinfo" :> TypicalCpuinfo)
           @@ ("/sys/fs/cgroup/cgroup.controllers" :> controllers)
           @@ ("/sys/fs/cgroup/cpu" :> cpu)
           @@ ("/sys/fs/cgroup/memory" :> memory)
           @@ ("/sys/fs/cgroup/cpu.max" :> cpu_max)
           @@ ("/sys/fs/cgroup/memory.max" :> memory_max)
           @@ ("/sys/fs/cgroup/memory.current" :> memory_current)
           @@ ("/sys/fs/cgroup/memory/memory.limit_in_bytes" :> limit_in_bytes)) :
        controllers \in {Absent, File("cpu memory\n")},
        cpu \in {Absent, Dir},
        memory \in {Absent, Dir},
        cpu_max \in {Absent, File("150000 100000\n")},
        memory_max \in {Absent, File("1073741824\n")},
        memory_current \in {Absent, File("4096\n")},
        limit_in_bytes \in {Absent, File("268435456\n")}}

InitMarkers ==
    \E f \in MarkerEnvs, c \in Clis : Start(f, TypicalHost, c)

SpecMarkers == InitMarkers /\ [][Next]_vars

\* Texts of the node's cpu.max that are no sound record: no limit, one
\* field, three fields, a quota or a period that is no number, a quota of
\* zero, a negative quota, a period of zero, and both zero
NodeCpuMaxEdgeTexts ==
    {"max 100000\n", "100000\n", "100000 100000 7\n", "abc 100000\n",
     "100000 abc\n", "0 100000\n", "-50000 100000\n", "50000 0\n", "0 0\n"}

\* Texts of the root's cpu.max: no limit, half a CPU, and a quota that is no
\* number
RootCpuMaxEdgeTexts == {"max 100000\n", "50000 100000\n", "abc 100000\n"}

\* Environments that vary the two cpu.max files over those texts, with and
\* without v1 files of the node.
CpuEdgeEnvs ==
    {Env(("/proc/self/cgroup" :> File("0::/a\n"))
           @@ ("/proc/meminfo" :> TypicalMeminfo)
           @@ ("/proc/cpuinfo" :> TypicalCpuinfo)
           @@ ("/sys/fs/cgroup/cgroup.controllers" :> File("cpu memory\n"))
           @@ ("/sys/fs/cgroup/a/cpu.max" :> v2node)
           @@ ("/sys/fs/cgroup/cpu.max" :> v2root)
           @@ ("/sys/fs/cgroup/cpu/a/cpu.cfs_quota_us" :> v1node[1])
           @@ ("/sys/fs/cgroup/cpu/a/cpu.cfs_period_us" :> v1node[2])) :
        v2node \in Files(NodeCpuMaxEdgeTexts),
        v2root \in Files(RootCpuMaxEdgeTexts),
        v1node \in {<<Absent, Absent>>,
                    <<File("150000\n"), File("100000\n")>>}}

InitCpuEdges ==
    \E f \in CpuEdgeEnvs, c \in Clis : Start(f, TypicalHost, c)

SpecCpuEdges == InitCpuEdges /\ [][Next]_vars

\* Contents of /proc/self/cgroup: the unified line alone, after a v1 line and
\* between v1 lines; a v1 memory line alone and after another controller's;
\* a memory line whose path holds a colon; a line of another controller
\* whose path holds ":memory:"; a line of two controllers; no line of either
\* kind; an empty file; no file.
Listings ==
    {File("0::/a\n"),
     File("5:memory:/b\n0::/a\n"),
     File("5:memory:/b\n0::/a\n3:cpu,cpuacct:/c\n"),
     File("5:memory:/a\n"),
     File("3:cpu,cpuacct:/\n5:memory:/a\n1:name=systemd:/b\n"),
     File("5:memory:/a:b\n"),
     File("4:cpu:/a:memory:/b\n"),
     File("5:cpu,memory:/a\n"),
     File("1:name=systemd:/a\n"),
     File(""),
     Absent}

\* Environments that vary the listing, with and without a limit of the node
\* "/a" in each schema.
ListingEnvs ==
    {Env(("/proc/self/cgroup" :> listing)
           @@ ("/proc/meminfo" :> TypicalMeminfo)
           @@ ("/proc/cpuinfo" :> TypicalCpuinfo)
           @@ ("/sys/fs/cgroup/cgroup.controllers" :> File("cpu memory\n"))
           @@ ("/sys/fs/cgroup/a/memory.max" :> v2node)
           @@ ("/sys/fs/cgroup/memory/a/memory.limit_in_bytes" :> v1node)) :
        listing \in Listings,
        v2node \in {Absent, File("1073741824\n")},
        v1node \in {Absent, File("268435456\n")}}

InitListings ==
    \E f \in ListingEnvs, c \in Clis : Start(f, TypicalHost, c)

SpecListings == InitListings /\ [][Next]_vars

\* An environment that changes while main runs.  The process starts in the
\* cgroup "/a", limited to 1 GiB, under a root limited to 1.5 GiB.
ChangingEnvs ==
    {Env(("/proc/self/cgroup" :> File("0::/a\n"))
           @@ ("/proc/meminfo" :> TypicalMeminfo)
           @@ ("/proc/cpuinfo" :> TypicalCpuinfo)
           @@ ("/sys/fs/cgroup/cgroup.controllers" :> File("cpu memory\n"))
           @@ ("/sys/fs/cgroup/a/memory.max" :> File("1073741824\n"))
           @@ ("/sys/fs/cgroup/memory.max" :> File("1610612736\n"))
           @@ ("/sys/fs/cgroup/a/memory.current" :> File("4096\n")))}

\* Another process writes 512 MiB to the memory.max of "/a".
LimitRewritten ==
    /\ pc \notin {"done", "panicked"}
    /\ fs["/sys/fs/cgroup/a/memory.max"] = File("1073741824\n")
    /\ fs' = [fs EXCEPT !["/sys/fs/cgroup/a/memory.max"] = File("536870912\n")]
    /\ UNCHANGED <<host, cli, pc, locals, out>>

\* Another process moves this one to the root cgroup.
ProcessMoved ==
    /\ pc \notin {"done", "panicked"}
    /\ fs["/proc/self/cgroup"] = File("0::/a\n")
    /\ fs' = [fs EXCEPT !["/proc/self/cgroup"] = File("0::/\n")]
    /\ UNCHANGED <<host, cli, pc, locals, out>>

InitChanging ==
    \E f \in ChangingEnvs, c \in Clis : Start(f, TypicalHost, c)

\* main's steps interleaved with the changes of the environment
NextChanging == Next \/ LimitRewritten \/ ProcessMoved

SpecChanging == InitChanging /\ [][NextChanging]_vars

\* Every environment of the model.
Init ==
    \/ InitCpuQuota
    \/ InitMemoryLimit
    \/ InitMemoryUsage
    \/ InitPlatform
    \/ InitMarkers
    \/ InitCpuEdges
    \/ InitListings

Spec == Init /\ [][Next]_vars

(***************************************************************************)
(* Where main stands.                                                      *)
(***************************************************************************)
\* main has run `let cgroup_memory_limit = ..` (and has not aborted since)
AfterMemoryLimit ==
    pc \in {"cgroup_memory_usage", "cgroup_version", "report",
            "print_memory_info", "print_cgroup_info", "done"}

\* main has run `let cgroup_cpu_quota = ..`
AfterCpuQuota ==
    pc \in {"system_memory", "cgroup_memory_limit", "panicked"}
        \/ AfterMemoryLimit

\* main has run `let (system_total, system_available) = ..` and the next
\* line
AfterSystemMemory == pc = "cgroup_memory_limit" \/ AfterMemoryLimit

\* main has run `let cgroup_version = ..`
AfterVersion ==
    pc \in {"report", "print_memory_info", "print_cgroup_info", "done"}

\* main has run `let cgroup_memory_usage = ..`
AfterMemoryUsage ==
    pc \in {"cgroup_version", "report", "print_memory_info",
            "print_cgroup_info", "done"}

(***************************************************************************)
(* Memory limit: the four tiers                                            *)
(***************************************************************************)
\* The four files of the memory limit, in the order documented, each with
\* the bound below which its value is accepted (u64::MAX for a v2 file,
\* 2^63 - 4096 for a v1 file) and the sentinel its schema writes for "no
\* limit" (the token "max" for v2, the integer 2^63 - 4096 for v1).
LimitTiers(path) ==
    <<[file |-> "/sys/fs/cgroup" \o path \o "/memory.max",
       below |-> "18446744073709551615", sentinel |-> "max"],
      [file |-> "/sys/fs/cgroup/memory.max",
       below |-> "18446744073709551615", sentinel |-> "max"],
      [file |-> "/sys/fs/cgroup/memory" \o path \o "/memory.limit_in_bytes",
       below |-> "9223372036854771712", sentinel |-> "9223372036854771712"],
      [file |-> "/sys/fs/cgroup/memory/memory.limit_in_bytes",
       below |-> "9223372036854771712", sentinel |-> "9223372036854771712"]>>

\* The number the file of a tier holds, if it is readable and holds one
TierNumber(tier) ==
    IF Lookup(tier.file).kind = "file"
    THEN ParseU64(Trim(Lookup(tier.file).data))
    ELSE None

\* The tier succeeds: readable, a u64, and below the tier's "no limit" value
TierSucceeds(tier) ==
    IsSome(TierNumber(tier)) /\ DecLt(Unwrap(TierNumber(tier)), tier.below)

\* C1: get_cgroup_memory_limit_for_path tries the four tiers v2 node, v2
\* root, v1 node, v1 root in that order and returns the value of the first
\* tier whose file is readable, parses as a u64 and passes that tier's
\* unlimited check; it returns None only when all four tiers fail.
C1_FirstSuccessfulLimitTierWins ==
    AfterMemoryLimit =>
        LET tiers == LimitTiers(cgroup_path)
        IN  \/ \E i \in 1..4 :
                 /\ TierSucceeds(tiers[i])
                 /\ \A j \in 1..(i - 1) : ~TierSucceeds(tiers[j])
                 /\ cgroup_memory_limit = TierNumber(tiers[i])
            \/ /\ \A i \in 1..4 : ~TierSucceeds(tiers[i])
               /\ cgroup_memory_limit = None

\* The first two tiers fail, the v1 node and the v1 root both hold a limit,
\* and they differ: the v1 node's is returned.
C1_Witness ==
    /\ AfterMemoryLimit
    /\ cgroup_path = "/a"
    /\ fs["/sys/fs/cgroup/a/memory.max"] = File("max\n")
    /\ fs["/sys/fs/cgroup/memory.max"] = File("max\n")
    /\ fs["/sys/fs/cgroup/memory/a/memory.limit_in_bytes"] = File("268435456\n")
    /\ fs["/sys/fs/cgroup/memory/memory.limit_in_bytes"]
           = File("9223372036854771711\n")
    /\ cgroup_memory_limit = Some("268435456")

\* The file of a tier is readable and holds its schema's sentinel
HoldsSentinel(tier) ==
    Lookup(tier.file).kind = "file" /\ Trim(Lookup(tier.file).data) = tier.sentinel

LimitValues(path) ==
    [i \in 1..4 |-> IF TierSucceeds(LimitTiers(path)[i])
                    THEN TierNumber(LimitTiers(path)[i])
                    ELSE None]

\* The number a usage file holds, if it is readable and holds one
UsageNumber(file) ==
    IF Lookup(file).kind = "file" THEN ParseU64(Trim(Lookup(file).data))
    ELSE None

UsageValues(path) ==
    <<UsageNumber("/sys/fs/cgroup" \o path \o "/memory.current"),
      UsageNumber("/sys/fs/cgroup/memory.current"),
      UsageNumber("/sys/fs/cgroup/memory" \o path \o "/memory.usage_in_bytes"),
      UsageNumber("/sys/fs/cgroup/memory/memory.usage_in_bytes")>>

\* The limit a cpu.max file holds: quota / period of a two-field record of
\* integers whose first field is not "max"
CpuMaxValue(file) ==
    IF Lookup(file).kind # "file" THEN None
    ELSE LET parts == SplitWhitespace(Trim(Lookup(file).data))
         IN  IF /\ Len(parts) = 2
                /\ parts[1] # "max"
                /\ IsSome(ParseI64(parts[1]))
                /\ IsSome(ParseI64(parts[2]))
             THEN Some(F64Div(Unwrap(ParseI64(parts[1])),
                              Unwrap(ParseI64(parts[2]))))
             ELSE None

\* The limit the files cpu.cfs_quota_us and cpu.cfs_period_us of a directory
\* hold: quota / period when both are readable, integers, and positive
CfsValue(dir) ==
    LET q == Lookup(dir \o "/cpu.cfs_quota_us")
        p == Lookup(dir \o "/cpu.cfs_period_us")
    IN  IF /\ q.kind = "file"
           /\ p.kind = "file"
           /\ IsSome(ParseI64(Trim(q.data)))
           /\ IsSome(ParseI64(Trim(p.data)))
           /\ I64Positive(Unwrap(ParseI64(Trim(q.data))))
           /\ I64Positive(Unwrap(ParseI64(Trim(p.data))))
        THEN Some(F64Div(Unwrap(ParseI64(Trim(q.data))),
                         Unwrap(ParseI64(Trim(p.data)))))
        ELSE None

CpuValues(path) ==
    <<CpuMaxValue("/sys/fs/cgroup" \o path \o "/cpu.max"),
      CpuMaxValue("/sys/fs/cgroup/cpu.max"),
      CfsValue("/sys/fs/cgroup/cpu" \o path),
      CfsValue("/sys/fs/cgroup/cpu")>>

\* A value at a node tier (t[1] for v2, t[3] for v1) is the result r, whatever
\* the root tiers hold.
NodeBeforeAnyRoot(t, r) ==
    /\ IsSome(t[1]) => r = t[1]
    /\ IsNone(t[1]) /\ IsSome(t[3]) => r = t[3]

\* A value at the v2 node tier is the result; a value at the v1 node tier is
\* the result unless a v2 tier, node or root, gave one.
NodeBeforeRootOfItsSchema(t, r) ==
    /\ IsSome(t[1]) => r = t[1]
    /\ IsSome(t[3]) => r = t[3] \/ (IsSome(r) /\ r \in {t[1], t[2]})
    /\ IsSome(r) /\ r = t[2] /\ r # t[1] => IsNone(t[1])
    /\ IsSome(r) /\ r = t[4] /\ r \notin {t[1], t[2], t[3]} => IsNone(t[3])

\* C2 as stated: for the CPU quota, the memory limit and the memory usage, a
\* value present at a node tier is never overridden by a root-tier value.
C2_NodeNeverOverriddenByRoot ==
    AfterMemoryUsage =>
        /\ NodeBeforeAnyRoot(CpuValues(cgroup_path), cgroup_cpu_quota)
        /\ NodeBeforeAnyRoot(LimitValues(cgroup_path), cgroup_memory_limit)
        /\ NodeBeforeAnyRoot(UsageValues(cgroup_path), cgroup_memory_usage)

\* C2, amended: for the CPU quota, the memory limit and the memory usage, a
\* value present at the v2 node tier is never overridden, and a value
\* present at the v1 node tier is never overridden by the v1 root tier: it
\* yields only to a value of a v2 tier (node or root), which the resolvers
\* try before any v1 file.  A root value is the result only when the node of
\* its schema has none.
C2_NodeNeverOverriddenWithinSchema ==
    AfterMemoryUsage =>
        /\ NodeBeforeRootOfItsSchema(CpuValues(cgroup_path), cgroup_cpu_quota)
        /\ NodeBeforeRootOfItsSchema(LimitValues(cgroup_path),
                                     cgroup_memory_limit)
        /\ NodeBeforeRootOfItsSchema(UsageValues(cgroup_path),
                                     cgroup_memory_usage)

\* Node and root cpu.max differ, and the node's one CPU is the quota.
C2_Witness ==
    /\ AfterMemoryUsage
    /\ cgroup_path = "/a"
    /\ fs["/sys/fs/cgroup/a/cpu.max"] = File("100000 100000\n")
    /\ fs["/sys/fs/cgroup/cpu.max"] = File("50000 100000\n")
    /\ CpuValues(cgroup_path)[1] # CpuValues(cgroup_path)[2]
    /\ cgroup_cpu_quota = CpuValues(cgroup_path)[1]

(***************************************************************************)
(* CPU quota: the quotient                                                 *)
(***************************************************************************)
RECURSIVE Gcd(_, _)
Gcd(a, b) == IF b = 0 THEN a ELSE Gcd(b, a % b)

RECURSIVE IsPowerOfTwo(_)
IsPowerOfTwo(n) == n = 1 \/ (n > 1 /\ n % 2 = 0 /\ IsPowerOfTwo(n \div 2))

RECURSIVE Pow2(_)
Pow2(n) == IF n = 0 THEN 1 ELSE 2 * Pow2(n - 1)

\* The rational quota / period, of integers below 2^30, is a number a double
\* holds: in lowest terms its denominator is a power of two.
Representable(quota, period) ==
    period # 0 /\ (quota = 0 \/ IsPowerOfTwo(period \div Gcd(quota, period)))

RECURSIVE StripZeroBits(_)
StripZeroBits(bits) ==
    IF Len(bits) > 0 /\ bits[Len(bits)] = 0
    THEN StripZeroBits(SubSeq(bits, 1, Len(bits) - 1))
    ELSE bits

RECURSIVE BitsToInt(_)
BitsToInt(bits) ==
    IF Len(bits) = 0 THEN 0
    ELSE 2 * BitsToInt(SubSeq(bits, 1, Len(bits) - 1)) + bits[Len(bits)]

\* The double f is the rational quota / period exactly, for positive integers
\* quota and period below 2^30: f = m * 2^e with m odd, and
\* m * 2^e * period = quota.
IsExactly(f, quota, period) ==
    /\ f.cls = "normal"
    /\ ~f.neg
    /\ LET sig == StripZeroBits(f.mant)
           e   == f.exp - (Len(sig) - 1)
       IN  /\ Len(sig) <= 30
           /\ IF e >= 0
              THEN /\ e <= 30
                   /\ quota % period = 0
                   /\ (quota \div period) % BitsToInt(sig) = 0
                   /\ (quota \div period) \div BitsToInt(sig) = Pow2(e)
              ELSE /\ -e <= 30
                   /\ period % Pow2(-e) = 0
                   /\ quota % BitsToInt(sig) = 0
                   /\ quota \div BitsToInt(sig) = period \div Pow2(-e)

\* The two fields of the node's cpu.max
NodeCpuMaxParts ==
    IF Lookup("/sys/fs/cgroup" \o cgroup_path \o "/cpu.max").kind = "file"
    THEN SplitWhitespace(
           Trim(Lookup("/sys/fs/cgroup" \o cgroup_path \o "/cpu.max").data))
    ELSE <<>>

\* The node's cpu.max holds a two-field record of integers whose first field
\* is not "max"
NodeCpuMaxIsRecord ==
    /\ Len(NodeCpuMaxParts) = 2
    /\ NodeCpuMaxParts[1] # "max"
    /\ IsSome(ParseI64(NodeCpuMaxParts[1]))
    /\ IsSome(ParseI64(NodeCpuMaxParts[2]))

NodeQuota == Unwrap(ParseI64(NodeCpuMaxParts[1]))

NodePeriod == Unwrap(ParseI64(NodeCpuMaxParts[2]))

NodeCpuMaxFallsThrough ==
    Len(NodeCpuMaxParts) # 2 \/ NodeCpuMaxParts[1] = "max"

\* What the v2 procedure (node, then root) produces
V2Limit ==
    IF IsSome(CpuValues(cgroup_path)[1]) THEN CpuValues(cgroup_path)[1]
    ELSE IF NodeCpuMaxFallsThrough THEN CpuValues(cgroup_path)[2]
    ELSE None

\* 1.5 as a double: 1.1 (binary) * 2^0
OneAndAHalf ==
    [cls |-> "normal", neg |-> FALSE, exp |-> 0,
     mant |-> <<1, 1>> \o [i \in 1..51 |-> 0]]

\* C5: the CPU quota is what the v2 procedure (node then root) produces when
\* it produces a limit; only otherwise the v1 procedure runs, and it yields
\* quota/period of the node's cpu.cfs_quota_us and cpu.cfs_period_us when
\* both are readable, integers and strictly positive, else the same of the
\* root's two files, else the quota is absent.
C5_V2ThenV1 ==
    AfterCpuQuota =>
        cgroup_cpu_quota =
            IF IsSome(V2Limit) THEN V2Limit
            ELSE IF IsSome(CpuValues(cgroup_path)[3])
            THEN CpuValues(cgroup_path)[3]
            ELSE CpuValues(cgroup_path)[4]

\* No v2 file gives a limit, the node's v1 files hold 150000 and 100000,
\* the root's hold 200000 and 100000, and the quota resolved is 1.5.
C5_Witness ==
    /\ AfterCpuQuota
    /\ fs["/sys/fs/cgroup/a/cpu.max"] = File("max 100000\n")
    /\ fs["/sys/fs/cgroup/cpu.max"] = File("max 100000\n")
    /\ fs["/sys/fs/cgroup/cpu/a/cpu.cfs_quota_us"] = File("150000\n")
    /\ fs["/sys/fs/cgroup/cpu/a/cpu.cfs_period_us"] = File("100000\n")
    /\ fs["/sys/fs/cgroup/cpu/cpu.cfs_quota_us"] = File("200000\n")
    /\ fs["/sys/fs/cgroup/cpu/cpu.cfs_period_us"] = File("100000\n")
    /\ cgroup_cpu_quota = Some(OneAndAHalf)

(***************************************************************************)
(* Memory usage                                                            *)
(***************************************************************************)
\* The first value of the tiers t that is present, None when none is
FirstPresent(t) ==
    IF \E i \in 1..Len(t) : IsSome(t[i])
    THEN t[CHOOSE i \in 1..Len(t) :
             IsSome(t[i]) /\ \A j \in 1..(i - 1) : IsNone(t[j])]
    ELSE None

\* C6: get_cgroup_memory_usage_for_path returns the number of the first of
\* v2 node (memory.current), v2 root, v1 node (memory.usage_in_bytes), v1
\* root whose file holds a u64, with no sentinel filtered (0 and u64::MAX are
\* returned), and None only when no tier holds a u64.
C6_FirstParsableUsageWins ==
    AfterMemoryUsage =>
        cgroup_memory_usage = FirstPresent(UsageValues(cgroup_path))

\* The node's memory.current does not parse, the root's holds u64::MAX, both
\* v1 files hold numbers, and the usage resolved is u64::MAX.
C6_Witness ==
    /\ AfterMemoryUsage
    /\ cgroup_path = "/a"
    /\ fs["/sys/fs/cgroup/a/memory.current"] = File("abc\n")
    /\ fs["/sys/fs/cgroup/memory.current"] = File("18446744073709551615\n")
    /\ fs["/sys/fs/cgroup/memory/a/memory.usage_in_bytes"] = File("4096\n")
    /\ fs["/sys/fs/cgroup/memory/memory.usage_in_bytes"] = File("8192\n")
    /\ cgroup_memory_usage = Some("18446744073709551615")

(***************************************************************************)
(* Verdicts                                                                *)
(***************************************************************************)
\* The limit is present and strictly below the total
LimitBelowTotal(limit, total) ==
    limit # None /\ limit[1] # total /\ DecLt(limit[1], total)

\* C7: in every report printed, cpu_constrained holds exactly when the
\* available CPU count is strictly below the logical CPU count, and
\* memory_constrained is false when the memory limit is absent and otherwise
\* holds exactly when the limit is strictly below the system total (a limit
\* equal to the total gives false).
C7_VerdictsFromGatheredValues ==
    \A i \in 1..Len(out) :
        /\ out[i].section = "json_simple" =>
             /\ out[i].cpu.constrained
                    <=> (available_cpus < system_logical_cpus)
             /\ out[i].memory.constrained
                    <=> LimitBelowTotal(cgroup_memory_limit, system_total)
        /\ out[i].section = "summary" =>
             (out[i].cpu.constrained
                    <=> (available_cpus < system_logical_cpus))
        /\ out[i].section = "cpu_info" =>
             (out[i].constrained
                    <=> (out[i].available_cpus < out[i].system_logical_cpus))
        /\ out[i].section = "memory_info" =>
             (out[i].constrained
                    <=> LimitBelowTotal(out[i].cgroup_memory_limit,
                                        out[i].system_total))

\* The simple JSON report of a process with 1 of 2 CPUs and a limit equal to
\* the 2 GiB total: the CPU is constrained, the memory is not.
C7_Witness ==
    /\ pc = "done"
    /\ Len(out) = 1
    /\ out[1].section = "json_simple"
    /\ available_cpus = 1
    /\ system_logical_cpus = 2
    /\ cgroup_memory_limit = Some("2147483648")
    /\ system_total = "2147483648"
    /\ out[1].cpu.constrained
    /\ ~out[1].memory.constrained

(***************************************************************************)
(* Used memory                                                             *)
(***************************************************************************)
\* used is total - available, or 0 when available exceeds total
IsSaturatingDifference(used, total, available) ==
    IF DecLt(total, available) THEN used = "0"
    ELSE DecAdd(used, available) = total

\* C8: used_bytes is total_bytes minus available_bytes, saturating: the
\* difference when available <= total and 0 when available > total, in main
\* and in the verbose memory section.
C8_UsedIsSaturatingDifference ==
    /\ AfterSystemMemory =>
         IsSaturatingDifference(system_used, system_total, system_available)
    /\ \A i \in 1..Len(out) :
         out[i].section = "memory_info" =>
             IsSaturatingDifference(out[i].system_used, out[i].system_total,
                                    out[i].system_available)

\* /proc/meminfo reports 1 GiB in total and 2 GiB available; used is 0.
C8_Witness ==
    /\ AfterSystemMemory
    /\ fs["/proc/meminfo"] = AvailableAboveTotalMeminfo
    /\ system_total = "1073741824"
    /\ system_available = "2147483648"
    /\ system_used = "0"

(***************************************************************************)
(* Version                                                                 *)
(***************************************************************************)
\* The path is there, as a file or as a directory
Present(path) == fs[path].kind \in {"file", "dir"}

\* The version the three markers stand for
VersionOfMarkers ==
    IF Present("/sys/fs/cgroup/cgroup.controllers") THEN Some("v2")
    ELSE IF Present("/sys/fs/cgroup/cpu") \/ Present("/sys/fs/cgroup/memory")
    THEN Some("v1")
    ELSE None

\* C9: the version detected is v2 when /sys/fs/cgroup/cgroup.controllers
\* exists (whether or not a v1 mount point exists too), v1 when it does not
\* and /sys/fs/cgroup/cpu or /sys/fs/cgroup/memory exists, and absent when
\* none of the three exists; the tag reported is "v1", "v2" or absent.
C9_VersionFromMarkers ==
    /\ AfterVersion =>
         /\ cgroup_version = VersionOfMarkers
         /\ cgroup_version \in {Some("v1"), Some("v2"), None}
    /\ \A i \in 1..Len(out) :
         /\ out[i].section = "json_detailed" =>
              out[i].cgroup.version = VersionOfMarkers
         /\ out[i].section = "cgroup_info" =>
              out[i].version = VersionOfMarkers

\* The marker file and both v1 mount points exist, and the version is v2.
C9_Witness ==
    /\ AfterVersion
    /\ fs["/sys/fs/cgroup/cgroup.controllers"].kind = "file"
    /\ fs["/sys/fs/cgroup/cpu"].kind = "dir"
    /\ fs["/sys/fs/cgroup/memory"].kind = "dir"
    /\ cgroup_version = Some("v2")

\* None of the three markers exists
NoMarkers ==
    /\ ~Present("/sys/fs/cgroup/cgroup.controllers")
    /\ ~Present("/sys/fs/cgroup/cpu")
    /\ ~Present("/sys/fs/cgroup/memory")

\* C10 as stated: when none of the three markers exists the version is
\* absent and the CPU quota, the memory limit and the memory usage are all
\* absent.
C10_NoMarkersNothingResolved ==
    AfterVersion /\ NoMarkers =>
        /\ cgroup_version = None
        /\ cgroup_cpu_quota = None
        /\ cgroup_memory_limit = None
        /\ cgroup_memory_usage = None

\* C10, amended: when none of the three markers exists the version is
\* absent and no v1 tier has a value (the v1 files lie below the missing
\* mount points); the resolvers do not look at the version, so the CPU quota,
\* the memory limit and the memory usage are what the v2 files cpu.max,
\* memory.max and memory.current of the node and the root give, and all
\* three are absent when those give nothing.
C10_NoMarkersOnlyUnifiedFilesResolve ==
    AfterVersion /\ NoMarkers =>
        /\ cgroup_version = None
        /\ \A i \in {3, 4} :
             /\ CpuValues(cgroup_path)[i] = None
             /\ LimitValues(cgroup_path)[i] = None
             /\ UsageValues(cgroup_path)[i] = None
        /\ cgroup_cpu_quota = V2Limit
        /\ cgroup_memory_limit =
               FirstPresent(SubSeq(LimitValues(cgroup_path), 1, 2))
        /\ cgroup_memory_usage =
               FirstPresent(SubSeq(UsageValues(cgroup_path), 1, 2))

\* No marker exists, /sys/fs/cgroup/memory.max and cpu.max are readable,
\* and a limit and a quota are resolved while the version is absent.
C10_Witness ==
    /\ AfterVersion
    /\ NoMarkers
    /\ fs["/sys/fs/cgroup/memory.max"] = File("1073741824\n")
    /\ fs["/sys/fs/cgroup/cpu.max"] = File("150000 100000\n")
    /\ fs["/sys/fs/cgroup/memory.current"] = Absent
    /\ cgroup_version = None
    /\ cgroup_memory_limit = Some("1073741824")
    /\ cgroup_cpu_quota = Some(OneAndAHalf)
    /\ cgroup_memory_usage = None

(***************************************************************************)
(* Failure                                                                 *)
(***************************************************************************)
\* C11: there is no fatal error path: whatever the input files hold, the
\* invocation never terminates with a failure (it degrades to absent values
\* and goes on to its report).
C11_NeverAborts == pc # "panicked"

\* /proc/meminfo reports a total of 2^54 kB, and main has aborted in
\* get_system_memory_from_proc with nothing printed.
C11_Witness ==
    /\ pc = "panicked"
    /\ fs["/proc/meminfo"] = OverflowingMeminfo
    /\ out = <<>>

(***************************************************************************)
(* One set of values, four presentations                                   *)
(***************************************************************************)
\* The cgroup section of the detailed text shows a quota and a limit
Scoped(path) == path # "" /\ path # "/"

Figures(section) ==
    CASE section.section = "json_detailed" ->
           [logical   |-> <<section.cpu.system_logical_cpus>>,
            physical  |-> <<section.cpu.system_physical_cpus>>,
            cpus      |-> <<section.cpu.available_cpus>>,
            available |-> <<section.memory.system_available_bytes>>]
      [] section.section = "json_simple" ->
           [logical   |-> <<section.cpu.system_logical_cpus>>,
            physical  |-> <<>>,
            cpus      |-> <<section.cpu.available_cpus>>,
            available |-> <<section.memory.system_available_bytes>>]
      [] section.section = "summary" ->
           [logical   |-> <<>>,
            physical  |-> <<>>,
            cpus      |-> <<section.cpu.available_cpus>>,
            available |-> <<section.memory.system_available>>]
      [] section.section = "cpu_info" ->
           [logical   |-> <<section.system_logical_cpus>>,
            physical  |-> <<section.system_physical_cpus>>,
            cpus      |-> <<section.available_cpus>>,
            available |-> <<>>]
      [] section.section = "memory_info" ->
           [logical   |-> <<>>, physical |-> <<>>, cpus |-> <<>>,
            available |-> <<section.system_available>>]
      [] OTHER ->
           [logical   |-> <<>>, physical |-> <<>>, cpus |-> <<>>,
            available |-> <<>>]

\* Every CPU count a section carries is above zero
CountsNonzero(section) ==
    /\ \A i \in 1..Len(Figures(section).logical) :
           Figures(section).logical[i] > 0
    /\ \A i \in 1..Len(Figures(section).physical) :
           Figures(section).physical[i] > 0
    /\ \A i \in 1..Len(Figures(section).cpus) :
           Figures(section).cpus[i] > 0

\* /proc/meminfo has a MemAvailable line whose second field is a u64 other
\* than 0
HasNonzeroAvailable ==
    /\ fs["/proc/meminfo"].kind = "file"
    /\ \E i \in 1..Len(Lines(fs["/proc/meminfo"].data)) :
         LET line   == Lines(fs["/proc/meminfo"].data)[i]
             fields == SplitWhitespace(line)
         IN  /\ StartsWith(line, "MemAvailable:")
             /\ Len(fields) >= 2
             /\ IsSome(ParseU64(fields[2]))
             /\ ParseU64(fields[2]) # Some("0")

F64Positive(f) == f.cls = "normal" /\ ~f.neg

\* C14: a CPU quota that is reported is a strictly positive finite number,
\* whatever the v2 and v1 quota and period files hold.
C14_QuotaStrictlyPositive ==
    AfterCpuQuota /\ IsSome(cgroup_cpu_quota) =>
        F64Positive(Unwrap(cgroup_cpu_quota))

\* The node's cpu.max holds "-50000 100000" and the quota resolved is -0.5.
C14_Witness ==
    /\ AfterCpuQuota
    /\ fs["/sys/fs/cgroup/a/cpu.max"] = File("-50000 100000\n")
    /\ IsSome(cgroup_cpu_quota)
    /\ Unwrap(cgroup_cpu_quota).cls = "normal"
    /\ Unwrap(cgroup_cpu_quota).neg
    /\ Unwrap(cgroup_cpu_quota).exp = -1

(***************************************************************************)
(* Ground truth and the hierarchy                                          *)
(***************************************************************************)
\* The number of lines of the processor listing that start with "processor"
ProcessorRecords(cpuinfo) ==
    LET lines == IF cpuinfo.kind = "file" THEN Lines(cpuinfo.data) ELSE <<>>
    IN  Cardinality({i \in 1..Len(lines) : StartsWith(lines[i], "processor")})

\* The logical count as a function of the processor listing, of sysconf's
\* answer and of the runtime's available count
LogicalCpusOf(cpuinfo, sysconf, runtime) ==
    LET count == ProcessorRecords(cpuinfo)
    IN  IF count > 0 THEN count
        ELSE IF sysconf > 0 THEN sysconf
        ELSE runtime

\* The physical count as a function of the processor listing and of the
\* runtime's physical count
PhysicalCpusOf(cpuinfo, runtime) ==
    LET ids == IF cpuinfo.kind = "file"
               THEN CoreIds(Lines(cpuinfo.data), None, {})
               ELSE {}
    IN  IF ids # {} THEN Cardinality(ids) ELSE runtime

\* The total memory as a function of the memory-info listing
TotalBytesOf(meminfo) ==
    Mul1024(MeminfoField(IF meminfo.kind = "file" THEN Lines(meminfo.data)
                         ELSE <<>>,
                         "MemTotal:", "0"))

\* The system total memory a section of the report carries
Totals(section) ==
    CASE section.section = "json_detailed" ->
           <<section.memory.system_total_bytes>>
      [] section.section = "memory_info" -> <<section.system_total>>
      [] OTHER -> <<>>

\* The counts and the total main has gathered so far and those of the
\* sections printed
Reported ==
    [logical  |-> (IF pc # "system_logical_cpus"
                   THEN {system_logical_cpus} ELSE {})
                  \cup {Figures(out[i]).logical[1] :
                          i \in {k \in 1..Len(out) :
                                   Figures(out[k]).logical # <<>>}},
     physical |-> (IF pc \notin {"system_logical_cpus", "system_physical_cpus"}
                   THEN {system_physical_cpus} ELSE {})
                  \cup {Figures(out[i]).physical[1] :
                          i \in {k \in 1..Len(out) :
                                   Figures(out[k]).physical # <<>>}},
     total    |-> (IF AfterSystemMemory THEN {system_total} ELSE {})
                  \cup {Totals(out[i])[1] :
                          i \in {k \in 1..Len(out) : Totals(out[k]) # <<>>}}]

\* The logical count does not come from the runtime's available count
LogicalFromPlatform ==
    ProcessorRecords(fs["/proc/cpuinfo"]) > 0 \/ host.sysconf > 0

C16_RootRetriedWheneverNodeYieldsNothing ==
    AfterCpuQuota /\ IsNone(CpuValues(cgroup_path)[1])
                  /\ IsSome(CpuValues(cgroup_path)[2]) =>
        /\ read_cgroup_v2_cpu_quota_for_path(cgroup_path)
             = CpuValues(cgroup_path)[2]
        /\ cgroup_cpu_quota = CpuValues(cgroup_path)[2]

\* The node's cpu.max holds "abc 100000", the root's "50000 100000" and
\* there are no v1 files: no quota is resolved.
C16_Witness ==
    /\ AfterCpuQuota
    /\ fs["/sys/fs/cgroup/a/cpu.max"] = File("abc 100000\n")
    /\ fs["/sys/fs/cgroup/cpu.max"] = File("50000 100000\n")
    /\ fs["/sys/fs/cgroup/cpu/a/cpu.cfs_quota_us"] = Absent
    /\ IsSome(CpuValues(cgroup_path)[2])
    /\ read_cgroup_v2_cpu_quota_for_path(cgroup_path) = None
    /\ cgroup_cpu_quota = None

(***************************************************************************)
(* The hierarchy path                                                      *)
(***************************************************************************)
\* main has run `let cgroup_path = ..`
AfterCgroupPath == pc = "cgroup_cpu_quota" \/ AfterCpuQuota

\* The lines of the listing, none when it is unreadable
ListingLines ==
    IF fs["/proc/self/cgroup"].kind = "file"
    THEN Lines(fs["/proc/self/cgroup"].data)
    ELSE <<>>

\* The line's controller field, the one between its first two colons, is
\* "memory"
ControllerIsMemory(line) ==
    Len(Split(line, ":")) >= 3 /\ Split(line, ":")[2] = "memory"

\* The path as described: the remainder of the first line that starts with
\* "0::"; otherwise the last colon-delimited field of the first line whose
\* controller field is "memory"; otherwise the empty string.
DescribedPath ==
    LET ls      == ListingLines
        unified == {i \in 1..Len(ls) : StartsWith(ls[i], "0::")}
        memory  == {i \in 1..Len(ls) : ControllerIsMemory(ls[i])}
        first(S) == CHOOSE i \in S : \A j \in S : i <= j
    IN  IF unified # {}
        THEN SubSeq(ls[first(unified)], 4, Len(ls[first(unified)]))
        ELSE IF memory # {}
        THEN Split(ls[first(memory)], ":")[Len(Split(ls[first(memory)], ":"))]
        ELSE ""

\* C17: for every content of the listing the path gathered is the remainder
\* of the line starting with "0::" if there is one, wherever it stands;
\* otherwise the last colon-delimited field of the line whose controller
\* field is "memory"; otherwise, also when the file is unreadable, the empty
\* string.
C17_PathAsDescribed == AfterCgroupPath => cgroup_path = DescribedPath

\* The listing is the one line "5:memory:/a:b": the path gathered is "/a",
\* the third field, not the last.
C17_Witness ==
    /\ AfterCgroupPath
    /\ fs["/proc/self/cgroup"] = File("5:memory:/a:b\n")
    /\ cgroup_path = "/a"
    /\ DescribedPath = "b"

(***************************************************************************)
(* One snapshot                                                            *)
(***************************************************************************)
\* The memory limits a section of the report shows
ShownLimits(section) ==
    CASE section.section = "json_detailed" ->
           {section.memory.cgroup_memory_limit_bytes,
            section.cgroup.memory_limit_bytes}
      [] section.section = "json_simple" ->
           {section.memory.cgroup_memory_limit_bytes}
      [] section.section = "summary" -> {section.memory.limited_to}
      [] section.section = "memory_info" -> {section.cgroup_memory_limit}
      [] section.section = "cgroup_info" -> {section.memory_limit} \ {None}
      [] OTHER -> {}

\* The hierarchy paths the sections of the report show
ShownPaths(section) ==
    CASE section.section = "json_detailed" -> {section.cgroup.current_path}
      [] section.section = "cgroup_info" /\ IsSome(section.process_cgroups) ->
           {SubSeq(Unwrap(section.process_cgroups)[i], 4,
                   Len(Unwrap(section.process_cgroups)[i])) :
              i \in {k \in 1..Len(Unwrap(section.process_cgroups)) :
                       StartsWith(Unwrap(section.process_cgroups)[k], "0::")}}
      [] OTHER -> {}

\* C18: the hierarchy path is derived once and every figure of the report
\* comes from the single gather step, also when the environment changes
\* while main runs: every memory limit the report shows is the one main
\* gathered, and every path it shows is the one main derived.
C18_ReportFromOneSnapshot ==
    \A i \in 1..Len(out) :
        /\ ShownLimits(out[i]) \subseteq {cgroup_memory_limit}
        /\ ShownPaths(out[i]) \subseteq {cgroup_path}

\* The detailed text report of a run during which the limit of "/a" was
\* rewritten between print_memory_info and print_cgroup_info: the memory
\* section shows 1 GiB and the cgroup section 512 MiB.
C18_Witness ==
    /\ pc = "done"
    /\ Len(out) = 3
    /\ out[2].section = "memory_info"
    /\ out[3].section = "cgroup_info"
    /\ cgroup_memory_limit = Some("1073741824")
    /\ out[2].cgroup_memory_limit = Some("1073741824")
    /\ out[3].memory_limit = Some("536870912")

(***************************************************************************)
(* The usage percentage                                                    *)
(***************************************************************************)
\* The usage percentages a section of the report shows
ShownPercents(section) ==
    IF "usage_percent" \in DOMAIN section
    THEN {section.usage_percent} \ {None}
    ELSE {}

\* C19 as stated: the memory section shows the usage percentage exactly when
\* the resolved memory limit and the resolved memory usage are both present.
C19_PercentWhenLimitAndUsage ==
    \A i \in 1..Len(out) :
        out[i].section = "memory_info" =>
            (ShownPercents(out[i]) # {}
                <=> IsSome(cgroup_memory_limit) /\ IsSome(cgroup_memory_usage))

\* C19, amended: the usage percentage is shown only in the memory section of
\* the detailed text report, and there exactly when the resolved memory limit
\* is present and strictly below the system total memory and the resolved
\* memory usage is present; it is then the percentage of that usage in that
\* limit.  Otherwise it is omitted; no report shows a percentage defaulted to
\* zero.
C19_PercentWhenConstrainedAndUsage ==
    \A i \in 1..Len(out) :
        /\ out[i].section # "memory_info" => ShownPercents(out[i]) = {}
        /\ out[i].section = "memory_info" =>
             IF /\ IsSome(cgroup_memory_limit)
                /\ DecLt(Unwrap(cgroup_memory_limit), system_total)
                /\ IsSome(cgroup_memory_usage)
             THEN ShownPercents(out[i])
                    = {Some([usage |-> Unwrap(cgroup_memory_usage),
                             limit |-> Unwrap(cgroup_memory_limit)])}
             ELSE ShownPercents(out[i]) = {}

\* The limit is one byte below the total of 2 GiB and the usage is 1 GiB: the
\* memory section shows the percentage of 1073741824 in 2147483647.
C19_Witness ==
    /\ pc = "done"
    /\ Len(out) = 3
    /\ out[2].section = "memory_info"
    /\ system_total = "2147483648"
    /\ cgroup_memory_limit = Some("2147483647")
    /\ cgroup_memory_usage = Some("1073741824")
    /\ out[2].usage_percent
         = Some([usage |-> "1073741824", limit |-> "2147483647"])

(***************************************************************************)
(* Kibibytes to bytes                                                      *)
(***************************************************************************)
\* C20: for every content of /proc/meminfo the total and the available
\* memory gathered are 1024 times the MemTotal and the MemAvailable value, a
\* missing or unparsable field or an unreadable file counting as 0, and the
\* multiplication neither wraps nor aborts.
C20_BytesAre1024TimesKb ==
    /\ AfterSystemMemory =>
         /\ system_total = ShiftLeft(MeminfoKb[1], KB_SHIFT)
         /\ system_available = ShiftLeft(MeminfoKb[2], KB_SHIFT)
    /\ pc = "panicked" => ~MeminfoOverflows

\* MemTotal is 2^54 kB and the multiplication has wrapped: the total
\* gathered is 0 bytes, with 1 GiB of it available.
C20_Witness ==
    /\ AfterSystemMemory
    /\ fs["/proc/meminfo"] = OverflowingMeminfo
    /\ MeminfoKb[1] = "18014398509481984"
    /\ system_total = "0"
    /\ system_available = "1073741824"

=============================================================================
